---------------------------- MODULE Spec2Model ----------------------------
(***************************************************************************)
(* A model of the tinyquery evaluator (src/tinyquery.py), its runtime      *)
(* operators (src/runtime.py) and its name resolution (src/typed_ast.py).  *)
(*                                                                         *)
(* Encoding of Python values:                                              *)
(*   None        is the empty tuple <<>>                                   *)
(*   the int n   is the 1-tuple <<n>>                                      *)
(*   True/False  are <<1>> and <<0>> (bool is a subclass of int: True == 1,*)
(*               hash(True) == hash(1), sum([True]) == 1)                  *)
(* A column name is the tuple of its dot-separated parts: "t1.a" is        *)
(* <<"t1", "a">> and the short name "a" is <<"a">>.                        *)
(* An OrderedDict is a sequence of [name, column] items with distinct      *)
(* names. A raised exception is the record [error |-> <exception name>].   *)
(***************************************************************************)
EXTENDS Integers, Sequences, FiniteSets, TLC

VARIABLES
    tables_by_name,  \* TinyQuery.tables_by_name: table name -> Table
    loaded,          \* history: the tables passed to load_table, in order
    call,            \* the last call made on the program and its arguments
    result           \* what that call returned or raised

vars == <<tables_by_name, loaded, call, result>>

---------------------------------------------------------------------------
(* Bounds of the model.                                                    *)

MaxRows == 2        \* rows of an input context
MaxInt == 2         \* operands of the runtime operators are in -MaxInt..MaxInt
MaxStoreRows == 1   \* rows of a table in the table-store specification
MaxLoads == 3       \* load_table calls in the table-store specification
MaxCols == 2        \* columns of a table in a type context
MaxTextLen == 4     \* lexemes of a query text in the pipeline specification

---------------------------------------------------------------------------
(* Python values.                                                          *)

None == <<>>
PyInt(n) == <<n>>
True == <<1>>
False == <<0>>
IsNone(v) == v = None
Raw(v) == v[1]

Raise(e) == [error |-> e]
IsError(r) == "error" \in DOMAIN r

\* bool(v) for the values of a mask: None and 0 are falsy.
Truthy(v) == ~IsNone(v) /\ Raw(v) # 0

SeqsUpTo(S, n) == UNION {[1..k -> S] : k \in 0..n}

RECURSIVE SeqSum(_)
SeqSum(s) == IF s = <<>> THEN 0 ELSE Raw(s[1]) + SeqSum(Tail(s))

\* sum(mask): 0 + mask[0] + ... ; int + None raises TypeError.
sum(mask) ==
    IF \E i \in DOMAIN mask : IsNone(mask[i])
    THEN Raise("TypeError")
    ELSE [value |-> SeqSum(mask)]

\* itertools.compress(data, selectors): the d of izip(data, selectors) with
\* a truthy selector, in order.
RECURSIVE compress(_, _)
compress(data, selectors) ==
    IF data = <<>> \/ selectors = <<>> THEN <<>>
    ELSE (IF Truthy(selectors[1]) THEN <<data[1]>> ELSE <<>>)
         \o compress(Tail(data), Tail(selectors))

---------------------------------------------------------------------------
(* Column, OrderedDict and Context.                                        *)

Column(type, values) == [type |-> type, values |-> values]

Item(name, column) == [name |-> name, column |-> column]

HasKey(columns, name) == \E i \in DOMAIN columns : columns[i].name = name

\* columns[name], for a name that HasKey.
Get(columns, name) ==
    columns[CHOOSE i \in DOMAIN columns : columns[i].name = name].column

\* collections.OrderedDict(items): a later item with a key already present
\* replaces the value and keeps the first position.
RECURSIVE OrderedDict(_)
OrderedDict(items) ==
    IF items = <<>> THEN <<>>
    ELSE LET n == Len(items)
             init == OrderedDict(SubSeq(items, 1, n - 1))
             last == items[n]
         IN  IF HasKey(init, last.name)
             THEN [i \in DOMAIN init |->
                     IF init[i].name = last.name THEN last ELSE init[i]]
             ELSE Append(init, last)

NoContext == <<>>

\* Context.__init__: every column must hold num_rows values.
Context(num_rows, columns, aggregate_context) ==
    IF \E i \in DOMAIN columns : Len(columns[i].column.values) # num_rows
    THEN Raise("AssertionError")
    ELSE [num_rows |-> num_rows, columns |-> columns,
          aggregate_context |-> aggregate_context]

\* mask_context(context, mask): new_columns is built first, then sum(mask)
\* is the new row count.
mask_context(context, mask) ==
    IF context.aggregate_context # NoContext THEN Raise("AssertionError")
    ELSE LET new_columns ==
                 [i \in DOMAIN context.columns |->
                    Item(context.columns[i].name,
                         Column(context.columns[i].column.type,
                                compress(context.columns[i].column.values,
                                         mask)))]
             num_rows == sum(mask)
         IN  IF IsError(num_rows) THEN num_rows
             ELSE Context(num_rows.value, new_columns, NoContext)

---------------------------------------------------------------------------
(* src/runtime.py: the built-in operators.                                 *)

\* Python 2 int division and modulo: the quotient is rounded down and the
\* remainder takes the divisor's sign.
PyFloorDiv(a, b) == IF b > 0 THEN a \div b ELSE (0 - a) \div (0 - b)
PyMod(a, b) == a - b * PyFloorDiv(a, b)

PyBool(p) == IF p THEN True ELSE False

\* Python 2 ordering of None and ints: None sorts before every int.
PyLess(a, b) ==
    IF IsNone(a) THEN ~IsNone(b)
    ELSE IF IsNone(b) THEN FALSE
    ELSE Raw(a) < Raw(b)

ArithmeticNames == {"+", "-", "*", "/", "%"}
ComparisonNames == {"=", "!=", ">", "<", ">=", "<="}

\* The lambdas of _BINARY_OPERATORS, on two raw Python values.
binary_func(name, a, b) ==
    IF name \in ArithmeticNames
    THEN IF IsNone(a) \/ IsNone(b) THEN Raise("TypeError")
         ELSE IF name \in {"/", "%"} /\ Raw(b) = 0
              THEN Raise("ZeroDivisionError")
         ELSE [value |->
                 CASE name = "+" -> PyInt(Raw(a) + Raw(b))
                   [] name = "-" -> PyInt(Raw(a) - Raw(b))
                   [] name = "*" -> PyInt(Raw(a) * Raw(b))
                   [] name = "/" -> PyInt(PyFloorDiv(Raw(a), Raw(b)))
                   [] name = "%" -> PyInt(PyMod(Raw(a), Raw(b)))]
    ELSE [value |->
            CASE name = "="  -> PyBool(a = b)
              [] name = "!=" -> PyBool(a # b)
              [] name = ">"  -> PyBool(PyLess(b, a))
              [] name = "<"  -> PyBool(PyLess(a, b))
              [] name = ">=" -> PyBool(~PyLess(a, b))
              [] name = "<=" -> PyBool(~PyLess(b, a))]

\* ArithmeticOperator.evaluate and ComparisonOperator.evaluate:
\* self.func(arg1, arg2).
ArithmeticOperator_evaluate(name, arg1, arg2) == binary_func(name, arg1, arg2)
ComparisonOperator_evaluate(name, arg1, arg2) == binary_func(name, arg1, arg2)

\* get_binary_op(name).evaluate(arg1, arg2)
get_binary_op_evaluate(name, arg1, arg2) ==
    IF name \in ArithmeticNames
    THEN ArithmeticOperator_evaluate(name, arg1, arg2)
    ELSE ComparisonOperator_evaluate(name, arg1, arg2)

\* check_types of the operator classes; the result type, or the exception.
ArithmeticOperator_check_types(type1, type2) == [type |-> "INT"]
ComparisonOperator_check_types(type1, type2) == [type |-> "BOOL"]
UnaryIntOperator_check_types(arg) ==
    IF arg = "INT" THEN [type |-> "INT"] ELSE Raise("AssertionError")

UnaryNames == {"-"}

\* get_binary_op(name).check_types(type1, type2) and
\* get_unary_op(name).check_types(arg)
get_binary_op_check_types(name, type1, type2) ==
    IF name \in ArithmeticNames
    THEN ArithmeticOperator_check_types(type1, type2)
    ELSE IF name \in ComparisonNames
    THEN ComparisonOperator_check_types(type1, type2)
    ELSE Raise("KeyError")
get_unary_op_check_types(name, arg) ==
    IF name \in UnaryNames THEN UnaryIntOperator_check_types(arg)
    ELSE Raise("KeyError")

---------------------------------------------------------------------------
(* Expressions of the typed AST and their evaluation.                      *)

Literal(value, type) == [kind |-> "Literal", value |-> value, type |-> type]
ColumnRefExpr(column, type) ==
    [kind |-> "ColumnRef", column |-> column, type |-> type]
FunctionCall(func, args, type) ==
    [kind |-> "FunctionCall", func |-> func, args |-> args, type |-> type]
AggregateFunctionCall(func, args, type) ==
    [kind |-> "AggregateFunctionCall", func |-> func, args |-> args,
     type |-> type]
SelectField(expr, alias) == [expr |-> expr, alias |-> alias]

HasError(rs) == \E i \in DOMAIN rs : IsError(rs[i])
\* The exception of the first element that raised.
FirstError(rs) ==
    rs[CHOOSE i \in DOMAIN rs :
          IsError(rs[i]) /\ \A j \in DOMAIN rs : j < i => ~IsError(rs[j])]

\* func.evaluate(num_rows, arg1, arg2) of a binary operator: the operator's
\* function applied to the operands of each row.
function_evaluate(func, num_rows, arg_results) ==
    LET rows == [i \in 1..num_rows |->
                    get_binary_op_evaluate(func, arg_results[1].values[i],
                                           arg_results[2].values[i])]
    IN  IF HasError(rows) THEN FirstError(rows)
        ELSE [values |-> [i \in 1..num_rows |-> rows[i].value]]

\* func.evaluate(num_rows, column) of an aggregate function. SUM: the sum
\* of the non-null values, null when there is none. COUNT: the number of
\* non-null values. COUNT(DISTINCT ..): the number of distinct non-null
\* values.
aggregate_evaluate(func, num_rows, arg_results) ==
    LET non_null == SelectSeq(arg_results[1].values, LAMBDA v : ~IsNone(v))
        total == IF non_null = <<>> THEN None ELSE PyInt(SeqSum(non_null))
        count == PyInt(Len(non_null))
        distinct ==
            PyInt(Cardinality({non_null[i] : i \in DOMAIN non_null}))
    IN  CASE func = "SUM" -> [values |-> [i \in 1..num_rows |-> total]]
          [] func = "COUNT" -> [values |-> [i \in 1..num_rows |-> count]]
          [] func = "COUNT_DISTINCT" ->
                [values |-> [i \in 1..num_rows |-> distinct]]
          [] OTHER -> Raise("NotImplementedError")

RECURSIVE evaluate_expr(_, _)

\* evaluate_expr with evaluate_FunctionCall passing the argument results to
\* the function in reverse order.
evaluate_expr_reversed_args(expr, context) ==
    CASE expr.kind = "Literal" ->
            [values |-> [i \in 1..context.num_rows |-> expr.value]]
      [] expr.kind = "ColumnRef" ->
            IF HasKey(context.columns, expr.column)
            THEN [values |-> Get(context.columns, expr.column).values]
            ELSE Raise("KeyError")
      [] expr.kind = "FunctionCall" ->
            LET n == Len(expr.args)
                arg_results == [i \in DOMAIN expr.args |->
                                   evaluate_expr(expr.args[n + 1 - i],
                                                 context)]
            IN  IF HasError(arg_results) THEN FirstError(arg_results)
                ELSE function_evaluate(expr.func, context.num_rows,
                                       arg_results)
      [] OTHER -> Raise("NotImplementedError")

\* evaluate_expr with evaluate_AggregateFunctionCall evaluating the
\* arguments of the aggregate against the context of the call instead of
\* its aggregate context.
evaluate_expr_args_in_outer_context(expr, context) ==
    CASE expr.kind = "Literal" ->
            [values |-> [i \in 1..context.num_rows |-> expr.value]]
      [] expr.kind = "ColumnRef" ->
            IF HasKey(context.columns, expr.column)
            THEN [values |-> Get(context.columns, expr.column).values]
            ELSE Raise("KeyError")
      [] expr.kind = "FunctionCall" ->
            LET arg_results == [i \in DOMAIN expr.args |->
                                   evaluate_expr(expr.args[i], context)]
            IN  IF HasError(arg_results) THEN FirstError(arg_results)
                ELSE function_evaluate(expr.func, context.num_rows,
                                       arg_results)
      [] expr.kind = "AggregateFunctionCall" ->
            IF context.aggregate_context = NoContext
            THEN Raise("AssertionError")
            ELSE LET arg_results ==
                         [i \in DOMAIN expr.args |->
                             evaluate_expr(expr.args[i], context)]
                 IN  IF HasError(arg_results) THEN FirstError(arg_results)
                     ELSE aggregate_evaluate(expr.func, context.num_rows,
                                             arg_results)
      [] OTHER -> Raise("NotImplementedError")

\* evaluate_expr and its handlers evaluate_Literal, evaluate_ColumnRef,
\* evaluate_FunctionCall and evaluate_AggregateFunctionCall.
evaluate_expr(expr, context) ==
    CASE expr.kind = "Literal" ->
            [values |-> [i \in 1..context.num_rows |-> expr.value]]
      [] expr.kind = "ColumnRef" ->
            IF HasKey(context.columns, expr.column)
            THEN [values |-> Get(context.columns, expr.column).values]
            ELSE Raise("KeyError")
      [] expr.kind = "FunctionCall" ->
            LET arg_results == [i \in DOMAIN expr.args |->
                                   evaluate_expr(expr.args[i], context)]
            IN  IF HasError(arg_results) THEN FirstError(arg_results)
                ELSE function_evaluate(expr.func, context.num_rows,
                                       arg_results)
      [] expr.kind = "AggregateFunctionCall" ->
            IF context.aggregate_context = NoContext
            THEN Raise("AssertionError")
            ELSE LET arg_results ==
                         [i \in DOMAIN expr.args |->
                             evaluate_expr(expr.args[i],
                                           context.aggregate_context[1])]
                 IN  IF HasError(arg_results) THEN FirstError(arg_results)
                     ELSE aggregate_evaluate(expr.func, context.num_rows,
                                             arg_results)
      [] OTHER -> Raise("NotImplementedError")

\* The (alias, Column) item that evaluate_select_field returns for the
\* results of the field's expression.
select_field_item(select_field, results) ==
    IF IsError(results) THEN results
    ELSE Item(select_field.alias,
              Column(select_field.expr.type, results.values))

\* evaluate_select_field: the (alias, Column) item of a select field.
evaluate_select_field(select_field, context) ==
    select_field_item(select_field,
                      evaluate_expr(select_field.expr, context))

\* The Context that evaluate_select_fields builds from the items of the
\* select fields.
context_from_items(num_rows, items) ==
    IF HasError(items) THEN FirstError(items)
    ELSE Context(num_rows, OrderedDict(items), NoContext)

\* evaluate_select_fields
evaluate_select_fields(select_fields, context) ==
    context_from_items(context.num_rows,
        [i \in DOMAIN select_fields |->
            evaluate_select_field(select_fields[i], context)])

\* empty_context_from_select_fields
empty_context_from_select_fields(select_fields) ==
    Context(0,
            OrderedDict([i \in DOMAIN select_fields |->
                            Item(select_fields[i].alias,
                                 Column(select_fields[i].expr.type, <<>>))]),
            NoContext)

\* empty_column_from_template and empty_context_from_template
empty_column_from_template(column) == Column(column.type, <<>>)
empty_context_from_template(context) ==
    Context(0,
            [i \in DOMAIN context.columns |->
                Item(context.columns[i].name,
                     empty_column_from_template(context.columns[i].column))],
            NoContext)

\* append_row_to_context without the update of num_rows.
append_row_to_context_no_count(src_context, index, dest_context) ==
    IF \E i \in DOMAIN dest_context.columns :
          ~HasKey(src_context.columns, dest_context.columns[i].name)
    THEN Raise("KeyError")
    ELSE IF \E i \in DOMAIN dest_context.columns :
               index > Len(Get(src_context.columns,
                               dest_context.columns[i].name).values)
    THEN Raise("IndexError")
    ELSE [dest_context EXCEPT
            !.columns =
                [i \in DOMAIN @ |->
                    Item(@[i].name,
                         Column(@[i].column.type,
                                Append(@[i].column.values,
                                       Get(src_context.columns,
                                           @[i].name).values[index])))]]

\* append_row_to_context: the destination after the in-place append.
append_row_to_context(src_context, index, dest_context) ==
    IF \E i \in DOMAIN dest_context.columns :
          ~HasKey(src_context.columns, dest_context.columns[i].name)
    THEN Raise("KeyError")
    ELSE IF \E i \in DOMAIN dest_context.columns :
               index > Len(Get(src_context.columns,
                               dest_context.columns[i].name).values)
    THEN Raise("IndexError")
    ELSE [dest_context EXCEPT
            !.num_rows = @ + 1,
            !.columns =
                [i \in DOMAIN @ |->
                    Item(@[i].name,
                         Column(@[i].column.type,
                                Append(@[i].column.values,
                                       Get(src_context.columns,
                                           @[i].name).values[index])))]]

---------------------------------------------------------------------------
(* GROUP BY: contexts as dictionary keys.                                  *)

\* hash(v) of CPython 2 for None and for an int that fits a machine word:
\* an int hashes to itself, except -1, which hashes to -2. hash(None) is
\* derived from the object's address and differs from the hash of every int
\* of the model.
PyHash(v) ==
    IF IsNone(v) THEN [none |-> TRUE]
    ELSE [int |-> IF Raw(v) = -1 THEN -2 ELSE Raw(v)]

\* hash(tuple): computed from the length and the hashes of the items alone.
\* The model keeps the sequence of item hashes, so two tuples hash equal in
\* the model exactly when their items hash equal pairwise; the real mixing
\* function can only collide more often.
tuple_hash(item_hashes) == [tuple |-> item_hashes]

\* Context.__hash__
RECURSIVE Context__hash__(_)
Context__hash__(self) ==
    tuple_hash(<<
        PyHash(PyInt(self.num_rows)),
        tuple_hash([c \in DOMAIN self.columns |->
            tuple_hash([i \in DOMAIN self.columns[c].column.values |->
                           PyHash(self.columns[c].column.values[i])])]),
        IF self.aggregate_context = NoContext THEN PyHash(None)
        ELSE Context__hash__(self.aggregate_context[1]) >>)

\* Context.__eq__ returns the 3-tuple
\*   ((self.num_rows, self.columns, self.aggregate_context) == other.num_rows,
\*    other.columns, other.aggregate_context)
\* whose first item compares a tuple with a number and is False.
Context__eq__(self, other) ==
    <<FALSE, other.columns, other.aggregate_context>>

\* bool(t) of a tuple: true unless empty.
TupleTruthy(t) == Len(t) # 0

\* The position of key in a dict whose entries are in insertion order, 0 if
\* absent: an entry matches when its hash equals the key's and
\* entry_key == key is truthy.
dict_find(entries, key) ==
    LET hits == {j \in DOMAIN entries :
                    /\ Context__hash__(entries[j].key) = Context__hash__(key)
                    /\ TupleTruthy(Context__eq__(entries[j].key, key))}
    IN  IF hits = {} THEN 0 ELSE CHOOSE j \in hits : \A k \in hits : j <= k

\* The aliases a query may use, in the order of Python's string comparison.
SortedAliases ==
    << <<"a">>, <<"bar">>, <<"cat">>, <<"f0_">>, <<"f1_">>, <<"foo">>,
       <<"x">> >>

\* sorted(alias_groups)
sorted(names) == SelectSeq(SortedAliases, LAMBDA n : n \in names)

GroupSet(field_groups, alias_groups) ==
    [field_groups |-> field_groups, alias_groups |-> alias_groups]

\* get_group_key: the singleton context of the group-key values of a row.
get_group_key(field_groups, alias_groups, select_context, alias_group_result_context, index) ==
    IF \/ \E g \in DOMAIN field_groups :
             ~HasKey(select_context.columns, field_groups[g].column)
       \/ \E g \in DOMAIN alias_groups :
             ~HasKey(alias_group_result_context.columns, alias_groups[g])
    THEN Raise("KeyError")
    ELSE Context(1,
            OrderedDict(
                [g \in DOMAIN field_groups |->
                    LET source_column ==
                            Get(select_context.columns, field_groups[g].column)
                    IN  Item(field_groups[g].column,
                             Column(source_column.type,
                                    <<source_column.values[index]>>))]
                \o
                [g \in DOMAIN alias_groups |->
                    LET source_column ==
                            Get(alias_group_result_context.columns,
                                alias_groups[g])
                    IN  Item(alias_groups[g],
                             Column(source_column.type,
                                    <<source_column.values[index]>>))]),
            NoContext)

\* The body of the first loop of evaluate_groups for row i and its group
\* key: the dict after the row was appended to the context of its key. The
\* dict is the sequence of its entries in insertion order; each entry also
\* records the indices of the rows appended to it.
group_row(select_context, i, group_contexts, key) ==
    IF IsError(key) THEN key
    ELSE
      LET found == dict_find(group_contexts.groups, key)
          with_key ==
              IF found = 0
              THEN Append(group_contexts.groups,
                          [key |-> key,
                           context |->
                              empty_context_from_template(select_context),
                           rows |-> <<>>])
              ELSE group_contexts.groups
          at == IF found = 0 THEN Len(with_key) ELSE found
          group_context ==
              append_row_to_context(select_context, i, with_key[at].context)
      IN  IF IsError(group_context) THEN group_context
          ELSE [groups |-> [with_key EXCEPT
                               ![at].context = group_context,
                               ![at].rows = Append(@, i)]]

\* The first loop of evaluate_groups over the rows i..num_rows of
\* select_context, which an exception ends.
RECURSIVE group_rows(_, _, _, _, _, _)
group_rows(field_groups, alias_group_list, select_context, alias_group_result_context, i, group_contexts) ==
    IF IsError(alias_group_result_context) THEN alias_group_result_context
    ELSE IF IsError(group_contexts) THEN group_contexts
    ELSE IF i > select_context.num_rows THEN group_contexts
    ELSE group_rows(field_groups, alias_group_list, select_context,
            alias_group_result_context, i + 1,
            group_row(select_context, i, group_contexts,
                get_group_key(field_groups, alias_group_list, select_context,
                              alias_group_result_context, i)))

\* dict.get(name) or other[name], for columns (a Column is a non-empty
\* tuple, hence truthy).
\* merge_contexts_for_select_fields
merge_contexts_for_select_fields(col_names, context1, context2) ==
    IF \/ context1.num_rows # context2.num_rows
       \/ context1.aggregate_context # NoContext
       \/ context2.aggregate_context # NoContext
    THEN Raise("AssertionError")
    ELSE IF \E n \in DOMAIN col_names :
               /\ ~HasKey(context1.columns, col_names[n])
               /\ ~HasKey(context2.columns, col_names[n])
    THEN Raise("KeyError")
    ELSE Context(context1.num_rows,
            OrderedDict(
                [n \in DOMAIN col_names |->
                    Item(col_names[n],
                         IF HasKey(context1.columns, col_names[n])
                         THEN Get(context1.columns, col_names[n])
                         ELSE Get(context2.columns, col_names[n]))]),
            NoContext)

\* The body of the second loop of evaluate_groups for one dict entry: the
\* result context after the row of the group was appended.
group_aggregate_result(aggregate_select_fields, group_eval_context) ==
    IF IsError(group_eval_context) THEN group_eval_context
    ELSE evaluate_select_fields(aggregate_select_fields, group_eval_context)
full_result_row(result_col_names, group_aggregate_result_context, context_key) ==
    IF IsError(group_aggregate_result_context)
    THEN group_aggregate_result_context
    ELSE merge_contexts_for_select_fields(result_col_names,
            group_aggregate_result_context, context_key)
append_result_row(full_result_row_context, result_context) ==
    IF IsError(full_result_row_context) THEN full_result_row_context
    ELSE append_row_to_context(full_result_row_context, 1, result_context)

\* group_eval_context with the key context passed as the aggregate context
\* in place of the context of the group's rows.
group_eval_context_of_key(context_key, group_context) ==
    Context(1, context_key.columns, <<context_key>>)

\* group_eval_context of line 89: one row, the columns of the group key,
\* the context of the group's rows as aggregate context.
group_eval_context(context_key, group_context) ==
    Context(1, context_key.columns, <<group_context>>)

\* The second loop of evaluate_groups: one result row per dict entry, the
\* entries visited in the given order; built is the dict, or the exception
\* raised while building it.
RECURSIVE group_results(_, _, _, _, _, _)
group_results(aggregate_select_fields, result_col_names, built, order, k, result_context) ==
    IF IsError(built) THEN built
    ELSE IF IsError(result_context) THEN result_context
    ELSE IF k > Len(order) THEN result_context
    ELSE group_results(aggregate_select_fields, result_col_names, built,
            order, k + 1,
            append_result_row(
                full_result_row(result_col_names,
                    group_aggregate_result(aggregate_select_fields,
                        group_eval_context(built.groups[order[k]].key,
                            built.groups[order[k]].context)),
                    built.groups[order[k]].key),
                result_context))

\* The dict group_contexts that evaluate_groups builds (lines 58-84), or the
\* exception raised while building it.
group_contexts_of(select_fields, group_set, select_context) ==
    group_rows(group_set.field_groups, sorted(group_set.alias_groups),
        select_context,
        evaluate_select_fields(
            SelectSeq(select_fields,
                      LAMBDA f : f.alias \in group_set.alias_groups),
            select_context),
        1, [groups |-> <<>>])

\* The number of entries of the dict group_contexts.
num_groups(built) == IF IsError(built) THEN 0 ELSE Len(built.groups)

\* evaluate_groups; order is the order in which iteritems() visits the
\* entries of group_contexts (positions in insertion order).
evaluate_groups(select_fields, group_set, select_context, order) ==
    group_results(
        SelectSeq(select_fields,
                  LAMBDA f : f.alias \notin group_set.alias_groups),
        [n \in DOMAIN select_fields |-> select_fields[n].alias],
        group_contexts_of(select_fields, group_set, select_context),
        order, 1, empty_context_from_select_fields(select_fields))

\* The orders in which a dict of n entries may be iterated.
IterationOrders(n) ==
    {order \in [1..n -> 1..n] :
        \A i, j \in 1..n : i # j => order[i] # order[j]}

---------------------------------------------------------------------------
(* The table store of TinyQuery.                                           *)

\* Table.__init__: every column must hold num_rows values.
Table(name, num_rows, columns) ==
    IF \E i \in DOMAIN columns : Len(columns[i].column.values) # num_rows
    THEN Raise("AssertionError")
    ELSE [name |-> name, num_rows |-> num_rows, columns |-> columns]

\* A load that keeps the table already stored under the name.
load_table_keeps_existing(tables, table) ==
    IF table.name \in DOMAIN tables THEN tables
    ELSE [n \in DOMAIN tables \cup {table.name} |->
            IF n = table.name THEN table ELSE tables[n]]

\* load_table: self.tables_by_name[table.name] = table
load_table(tables, table) ==
    [n \in DOMAIN tables \cup {table.name} |->
        IF n = table.name THEN table ELSE tables[n]]

\* get_all_tables: return self.tables_by_name
get_all_tables(tables) == [tables |-> tables]

---------------------------------------------------------------------------
(* src/typed_ast.py: TypeContext and the resolution of names.              *)

ColumnRef(column, type) == [column |-> column, type |-> type]

TypeContext(columns, aliases, ambig_aliases) ==
    [columns |-> columns, aliases |-> aliases,
     ambig_aliases |-> ambig_aliases]

TypeOf(columns, name) ==
    columns[CHOOSE i \in DOMAIN columns : columns[i].name = name].type

HasColumn(columns, name) == \E i \in DOMAIN columns : columns[i].name = name

\* A resolution that falls through to 'Field not found' for an ambiguous
\* alias.
column_ref_for_name_no_ambig(self, name) ==
    IF HasColumn(self.columns, name)
    THEN ColumnRef(name, TypeOf(self.columns, name))
    ELSE IF name \in DOMAIN self.aliases
    THEN ColumnRef(self.aliases[name], TypeOf(self.columns, self.aliases[name]))
    ELSE Raise("CompileError: Field not found")

\* TypeContext.column_ref_for_name
column_ref_for_name(self, name) ==
    IF HasColumn(self.columns, name)
    THEN ColumnRef(name, TypeOf(self.columns, name))
    ELSE IF name \in DOMAIN self.aliases
    THEN LET full_name == self.aliases[name]
         IN  IF HasColumn(self.columns, full_name)
             THEN ColumnRef(full_name, TypeOf(self.columns, full_name))
             ELSE Raise("KeyError")
    ELSE IF name \in self.ambig_aliases
    THEN Raise("CompileError: Ambiguous field")
    ELSE Raise("CompileError: Field not found")

\* type_context.TypeContext.short_column_name: the part after the last dot.
short_column_name(name) == <<name[Len(name)]>>

\* The type context of a base table (or of its alias): the columns under
\* their qualified names, each short name an alias of its column.
type_context_for_table(qualifier, column_names, types) ==
    TypeContext(
        [i \in DOMAIN column_names |->
            [name |-> <<qualifier, column_names[i]>>, type |-> types[i]]],
        [short \in {<<column_names[i]>> : i \in DOMAIN column_names} |->
            <<qualifier, short[1]>>],
        {})

\* The type context of a join: the columns of both sides; a short name both
\* sides define, or that is ambiguous on one side, becomes ambiguous.
type_context_for_join(left, right) ==
    LET ambig == left.ambig_aliases \cup right.ambig_aliases
                 \cup (DOMAIN left.aliases \cap DOMAIN right.aliases)
        kept == (DOMAIN left.aliases \cup DOMAIN right.aliases) \ ambig
    IN  TypeContext(
            left.columns \o right.columns,
            [short \in kept |->
                IF short \in DOMAIN left.aliases THEN left.aliases[short]
                ELSE right.aliases[short]],
            ambig)

---------------------------------------------------------------------------
(* Table expressions and evaluate_select.                                  *)

NoTable == [kind |-> "NoTable"]
TableExpr(name, type_ctx) ==
    [kind |-> "Table", name |-> name, type_ctx |-> type_ctx]
TableUnion(tables, type_ctx) ==
    [kind |-> "TableUnion", tables |-> tables, type_ctx |-> type_ctx]
NoGroupSet == [none |-> TRUE]
Select(select_fields, table, where_expr, group_set) ==
    [kind |-> "Select", select_fields |-> select_fields, table |-> table,
     where_expr |-> where_expr, group_set |-> group_set]

\* context_from_table: the row count is the length of the first column;
\* zip pairs the names of the type context with the table's columns.
context_from_table(table, type_context) ==
    IF table.columns = <<>> THEN Raise("StopIteration")
    ELSE LET any_column == table.columns[1].column
             n == IF Len(type_context.columns) < Len(table.columns)
                  THEN Len(type_context.columns) ELSE Len(table.columns)
         IN  Context(Len(any_column.values),
                     OrderedDict([i \in 1..n |->
                        Item(type_context.columns[i].name,
                             table.columns[i].column)]),
                     NoContext)

\* empty_context_from_type_context
empty_context_from_type_context(type_context) ==
    IF type_context.aggregate_context # NoContext
    THEN Raise("AssertionError")
    ELSE Context(0,
                 OrderedDict([i \in DOMAIN type_context.columns |->
                    Item(type_context.columns[i].name,
                         Column(type_context.columns[i].type, <<>>))]),
                 NoContext)

\* The dict short_named_src_column_values: short name -> values; of two
\* source columns with the same short name the later one stays.
ShortNamedValues(src_context, col_name) ==
    LET hits == {i \in DOMAIN src_context.columns :
                    short_column_name(src_context.columns[i].name) = col_name}
    IN  IF hits = {} THEN [found |-> FALSE]
        ELSE [found |-> TRUE,
              values |->
                 src_context.columns[
                    CHOOSE i \in hits : \A j \in hits : j <= i].column.values]

\* append_partial_context_to_context: the destination after the in-place
\* extension.
append_partial_context_to_context(src_context, dest_context) ==
    [dest_context EXCEPT
        !.num_rows = @ + src_context.num_rows,
        !.columns =
            [i \in DOMAIN @ |->
                LET src_column_values ==
                        ShortNamedValues(src_context, @[i].name)
                IN  Item(@[i].name,
                         Column(@[i].column.type,
                                @[i].column.values \o
                                (IF src_column_values.found
                                 THEN src_column_values.values
                                 ELSE [k \in 1..src_context.num_rows |->
                                          None])))]]

RECURSIVE evaluate_table_expr(_, _, _)
RECURSIVE evaluate_select(_, _, _)
RECURSIVE union_tables(_, _, _, _, _)

\* eval_table_Table
eval_table_Table(table_expr, tables) ==
    IF table_expr.name \notin DOMAIN tables THEN Raise("KeyError")
    ELSE context_from_table(tables[table_expr.name], table_expr.type_ctx)

\* append_partial_context_to_context applied to the context of a child,
\* unless evaluating the child raised.
append_table_result(table_result, result_context) ==
    IF IsError(table_result) THEN table_result
    ELSE append_partial_context_to_context(table_result, result_context)

\* The loop of eval_table_TableUnion over the children k..n, which an
\* exception ends.
union_tables(table_expr, tables, orders, k, result_context) ==
    IF IsError(result_context) THEN result_context
    ELSE IF k > Len(table_expr.tables) THEN result_context
    ELSE union_tables(table_expr, tables, orders, k + 1,
            append_table_result(
                evaluate_table_expr(table_expr.tables[k], tables, orders),
                result_context))

\* eval_table_TableUnion
eval_table_TableUnion(table_expr, tables, orders) ==
    union_tables(table_expr, tables, orders, 1,
                 empty_context_from_type_context(table_expr.type_ctx))

\* evaluate_table_expr: dispatch on the class of the table expression to
\* eval_table_NoTable, eval_table_Table, eval_table_TableUnion or
\* eval_table_Select; any other class has no handler.
evaluate_table_expr(table_expr, tables, orders) ==
    CASE table_expr.kind = "NoTable" -> Context(1, <<>>, NoContext)
      [] table_expr.kind = "Table" -> eval_table_Table(table_expr, tables)
      [] table_expr.kind = "TableUnion" ->
            eval_table_TableUnion(table_expr, tables, orders)
      [] table_expr.kind = "Select" ->
            evaluate_select(table_expr, tables, orders)
      [] OTHER -> Raise("NotImplementedError")

\* select_context of evaluate_select (lines 34-36): the table context
\* masked by the values of the WHERE expression.
mask_by_column(table_context, mask_column) ==
    IF IsError(mask_column) THEN mask_column
    ELSE mask_context(table_context, mask_column.values)
select_context_of(where_expr, table_context) ==
    IF IsError(table_context) THEN table_context
    ELSE mask_by_column(table_context,
                        evaluate_expr(where_expr, table_context))

\* Lines 38-43 of evaluate_select: the select fields evaluated on
\* select_context, by groups if the query has a GROUP BY.
select_fields_of(select_ast, orders, select_context) ==
    IF IsError(select_context) THEN select_context
    ELSE IF select_ast.group_set # NoGroupSet
    THEN evaluate_groups(select_ast.select_fields, select_ast.group_set,
            select_context,
            orders[num_groups(group_contexts_of(select_ast.select_fields,
                                  select_ast.group_set, select_context))])
    ELSE evaluate_select_fields(select_ast.select_fields, select_context)

\* evaluate_select; orders[n] is the order in which a dict of n groups is
\* iterated.
evaluate_select(select_ast, tables, orders) ==
    select_fields_of(select_ast, orders,
        select_context_of(select_ast.where_expr,
            evaluate_table_expr(select_ast.table, tables, orders)))

\* The typed AST of SELECT * FROM <name>: one select field per column of the
\* table, named by the column; no WHERE clause is the literal true.
compile_select_star(name, table) ==
    LET names == [i \in DOMAIN table.columns |-> table.columns[i].name[1]]
        types == [i \in DOMAIN table.columns |-> table.columns[i].column.type]
    IN  Select([i \in DOMAIN names |->
                   SelectField(ColumnRefExpr(<<name, names[i]>>, types[i]),
                               <<names[i]>>)],
               TableExpr(name, type_context_for_table(name, names, types)),
               Literal(True, "BOOL"),
               NoGroupSet)

\* The type context of a comma union: the given short-named columns.
type_context_for_union(columns) ==
    [columns |-> columns, aliases |-> <<>>, ambig_aliases |-> {},
     aggregate_context |-> NoContext]

\* evaluate_query, for a query already compiled to its typed AST.
evaluate_query(select_ast, tables, orders) ==
    evaluate_select(select_ast, tables, orders)

\* The typed Join table expression: two table expressions and the ON
\* condition.
Join(table1, table2, condition, type_ctx) ==
    [kind |-> "Join", table1 |-> table1, table2 |-> table2,
     condition |-> condition, type_ctx |-> type_ctx]

\* The combined single-row view of row i of the left context and row j of
\* the right context: the qualified columns of both sides.
row_pair_context(context1, context2, i, j) ==
    Context(1,
        [c \in DOMAIN context1.columns |->
            Item(context1.columns[c].name,
                 Column(context1.columns[c].column.type,
                        <<context1.columns[c].column.values[i]>>))]
        \o
        [c \in DOMAIN context2.columns |->
            Item(context2.columns[c].name,
                 Column(context2.columns[c].column.type,
                        <<context2.columns[c].column.values[j]>>))],
        NoContext)

\* The nested-loop join of two evaluated sides: the ON condition is
\* evaluated on every (i, j) row pair, i outermost, and a pair is kept only
\* when the condition is true; the kept rows carry the columns of both sides.
eval_table_Join(context1, context2, condition) ==
    LET n1 == context1.num_rows
        n2 == context2.num_rows
        pairs == [p \in 1..(n1 * n2) |->
                     <<((p - 1) \div n2) + 1, ((p - 1) % n2) + 1>>]
        conds == [p \in DOMAIN pairs |->
                     evaluate_expr(condition,
                         row_pair_context(context1, context2,
                                          pairs[p][1], pairs[p][2]))]
        kept == SelectSeq(pairs,
                    LAMBDA pair :
                        conds[(pair[1] - 1) * n2 + pair[2]].values[1] = True)
    IN  IF HasError(conds) THEN FirstError(conds)
        ELSE Context(Len(kept),
                 [c \in DOMAIN context1.columns |->
                     Item(context1.columns[c].name,
                          Column(context1.columns[c].column.type,
                                 [k \in DOMAIN kept |->
                                     context1.columns[c].column
                                         .values[kept[k][1]]]))]
                 \o
                 [c \in DOMAIN context2.columns |->
                     Item(context2.columns[c].name,
                          Column(context2.columns[c].column.type,
                                 [k \in DOMAIN kept |->
                                     context2.columns[c].column
                                         .values[kept[k][2]]]))],
                 NoContext)

---------------------------------------------------------------------------
(* Evaluation with list objects. A Column's values is a Python list, an    *)
(* object that several columns may share and that list.append and          *)
(* list.extend change in place. The heap is the sequence of the list       *)
(* objects, a list's address is its position; the lists of the stored      *)
(* tables come first. A located context is a Context together with the     *)
(* addresses of the lists of its columns; the values of its columns are    *)
(* those the heap holds at these addresses.                                *)

RECURSIVE Concat(_)
Concat(seqs) == IF seqs = <<>> THEN <<>> ELSE seqs[1] \o Concat(Tail(seqs))

\* The stored tables in a fixed order.
StoreOrder(tables) ==
    SelectSeq(<<"t1", "t2">>, LAMBDA name : name \in DOMAIN tables)

\* The lists of the columns of the stored tables.
HeapOf(tables) ==
    Concat([k \in DOMAIN StoreOrder(tables) |->
               [i \in DOMAIN tables[StoreOrder(tables)[k]].columns |->
                   tables[StoreOrder(tables)[k]].columns[i].column.values]])

\* The address of the list of column i of the stored table of that name.
AddressOf(tables, name, i) ==
    LET order == StoreOrder(tables)
        pos == CHOOSE k \in DOMAIN order : order[k] = name
    IN  Len(Concat([k \in 1..(pos - 1) |->
                       [j \in DOMAIN tables[order[k]].columns |-> j]])) + i

\* The stored tables as the heap shows them: a Table is an immutable tuple of
\* its name, its row count and its columns, whose lists can change.
ReadTables(tables, heap) ==
    [name \in DOMAIN tables |->
        [tables[name] EXCEPT
            !.columns =
                [i \in DOMAIN @ |->
                    [@[i] EXCEPT
                        !.column.values = heap[AddressOf(tables, name, i)]]]]]

Located(context, refs) == [context |-> context, refs |-> refs]

\* The context a located context denotes in the heap.
Deref(heap, at) ==
    [at.context EXCEPT
        !.columns = [i \in DOMAIN @ |->
                        [@[i] EXCEPT !.column.values = heap[at.refs[i]]]]]

\* A context built with new lists (Column(type, [..]) of a list display or of
\* list(..)); an exception builds nothing.
Alloc(heap, context) ==
    IF IsError(context) THEN [heap |-> heap, at |-> context]
    ELSE [heap |-> heap \o [i \in DOMAIN context.columns |->
                               context.columns[i].column.values],
          at |-> Located(context,
                         [i \in DOMAIN context.columns |-> Len(heap) + i])]

\* The lists and the row count of a located context changed in place to
\* those of the given context.
Write(heap, at, context) ==
    IF IsError(context) THEN [heap |-> heap, at |-> context]
    ELSE [heap |-> [a \in DOMAIN heap |->
                       IF \E i \in DOMAIN at.refs : at.refs[i] = a
                       THEN context.columns[
                               CHOOSE i \in DOMAIN at.refs : at.refs[i] = a]
                                   .column.values
                       ELSE heap[a]],
          at |-> Located(context, at.refs)]

\* context_from_table: the columns of the context are the Column tuples of
\* the table, so they share the table's lists.
context_from_table_at(heap, tables, name, type_context) ==
    IF IsError(context_from_table(tables[name], type_context))
    THEN [heap |-> heap,
          at |-> context_from_table(tables[name], type_context)]
    ELSE [heap |-> heap,
          at |-> Located(context_from_table(
                             ReadTables(tables, heap)[name], type_context),
                    [i \in DOMAIN context_from_table(tables[name],
                                      type_context).columns |->
                        AddressOf(tables, name, i)])]

\* A mask_context that filters the lists of the context in place.
mask_context_in_place(heap, at, mask) ==
    Write(heap, at, mask_context(Deref(heap, at), mask))

\* mask_context: the kept values go to new lists.
mask_context_at(heap, at, mask) ==
    Alloc(heap, mask_context(Deref(heap, at), mask))

\* append_partial_context_to_context: dest_context is extended in place.
append_partial_context_to_context_at(src, dest) ==
    IF IsError(src.at) THEN src
    ELSE Write(src.heap, dest,
               append_partial_context_to_context(Deref(src.heap, src.at),
                                                 Deref(src.heap, dest)))

\* The address of the list of column j of the context evaluate_select_fields
\* returns: evaluate_ColumnRef returns the list of the context's column
\* itself; a literal or a function call gives a new list.
select_field_ref(select_fields, name, at, fresh) ==
    LET expr == select_fields[
                    CHOOSE f \in DOMAIN select_fields :
                        /\ select_fields[f].alias = name
                        /\ \A g \in DOMAIN select_fields :
                              select_fields[g].alias = name => g <= f].expr
    IN  IF expr.kind = "ColumnRef"
        THEN at.refs[CHOOSE c \in DOMAIN at.context.columns :
                        at.context.columns[c].name = expr.column]
        ELSE fresh

\* evaluate_select_fields on a located context.
select_fields_located(select_fields, context, allocated) ==
    IF IsError(allocated.at) THEN allocated
    ELSE [heap |-> allocated.heap,
          at |-> Located(allocated.at.context,
                    [j \in DOMAIN allocated.at.refs |->
                        select_field_ref(select_fields,
                            allocated.at.context.columns[j].name, context,
                            allocated.at.refs[j])])]
evaluate_select_fields_at(heap, select_fields, at) ==
    select_fields_located(select_fields, at,
        Alloc(heap, evaluate_select_fields(select_fields, Deref(heap, at))))

\* The first loop of evaluate_groups: each group context is created empty by
\* empty_context_from_template, with new lists, and then receives its rows
\* in place through append_row_to_context.
RECURSIVE group_rows_at(_, _, _, _)
group_rows_at(heap, select_context, groups, k) ==
    IF k > Len(groups) THEN heap
    ELSE group_rows_at(
            Write(Alloc(heap, empty_context_from_template(select_context)).heap,
                  Alloc(heap, empty_context_from_template(select_context)).at,
                  groups[k].context).heap,
            select_context, groups, k + 1)

\* The second loop of evaluate_groups: result_context is created empty by
\* empty_context_from_select_fields, with new lists, and receives the result
\* rows in place through append_row_to_context.
group_results_at(heap, select_fields, result_context) ==
    IF IsError(result_context) THEN [heap |-> heap, at |-> result_context]
    ELSE Write(Alloc(heap, empty_context_from_select_fields(select_fields)).heap,
               Alloc(heap, empty_context_from_select_fields(select_fields)).at,
               result_context)

\* evaluate_groups on a located context.
groups_located(heap, select_fields, select_context, built, result_context) ==
    IF IsError(built) THEN [heap |-> heap, at |-> built]
    ELSE group_results_at(
            group_rows_at(heap, select_context, built.groups, 1),
            select_fields, result_context)
evaluate_groups_at(heap, select_fields, group_set, at, order) ==
    groups_located(heap, select_fields, Deref(heap, at),
        group_contexts_of(select_fields, group_set, Deref(heap, at)),
        evaluate_groups(select_fields, group_set, Deref(heap, at), order))

RECURSIVE evaluate_table_expr_at(_, _, _, _)
RECURSIVE evaluate_select_at(_, _, _, _)
RECURSIVE union_tables_at(_, _, _, _, _)

\* The loop of eval_table_TableUnion on located contexts.
union_tables_at(table_expr, tables, orders, k, result_context) ==
    IF IsError(result_context.at) THEN result_context
    ELSE IF k > Len(table_expr.tables) THEN result_context
    ELSE union_tables_at(table_expr, tables, orders, k + 1,
            append_partial_context_to_context_at(
                evaluate_table_expr_at(result_context.heap,
                    table_expr.tables[k], tables, orders),
                result_context.at))

\* evaluate_table_expr and its handlers on located contexts.
evaluate_table_expr_at(heap, table_expr, tables, orders) ==
    CASE table_expr.kind = "NoTable" ->
            Alloc(heap, Context(1, <<>>, NoContext))
      [] table_expr.kind = "Table" ->
            IF table_expr.name \notin DOMAIN tables
            THEN [heap |-> heap, at |-> Raise("KeyError")]
            ELSE context_from_table_at(heap, tables, table_expr.name,
                                       table_expr.type_ctx)
      [] table_expr.kind = "TableUnion" ->
            union_tables_at(table_expr, tables, orders, 1,
                Alloc(heap,
                      empty_context_from_type_context(table_expr.type_ctx)))
      [] table_expr.kind = "Select" ->
            evaluate_select_at(heap, table_expr, tables, orders)
      [] OTHER -> [heap |-> heap, at |-> Raise("NotImplementedError")]

\* evaluate_select on located contexts.
mask_by_column_at(table_context, mask_column) ==
    IF IsError(mask_column)
    THEN [heap |-> table_context.heap, at |-> mask_column]
    ELSE mask_context_at(table_context.heap, table_context.at,
                         mask_column.values)
select_context_at(where_expr, table_context) ==
    IF IsError(table_context.at) THEN table_context
    ELSE mask_by_column_at(table_context,
            evaluate_expr(where_expr,
                          Deref(table_context.heap, table_context.at)))
select_fields_at(select_ast, orders, select_context) ==
    IF IsError(select_context.at) THEN select_context
    ELSE IF select_ast.group_set # NoGroupSet
    THEN evaluate_groups_at(select_context.heap, select_ast.select_fields,
            select_ast.group_set, select_context.at,
            orders[num_groups(group_contexts_of(select_ast.select_fields,
                      select_ast.group_set,
                      Deref(select_context.heap, select_context.at)))])
    ELSE evaluate_select_fields_at(select_context.heap,
                                   select_ast.select_fields,
                                   select_context.at)
evaluate_select_at(heap, select_ast, tables, orders) ==
    select_fields_at(select_ast, orders,
        select_context_at(select_ast.where_expr,
            evaluate_table_expr_at(heap, select_ast.table, tables, orders)))

\* evaluate_query for a query already compiled to its typed AST: the heap
\* after the call and the located context returned, or the exception raised.
evaluate_query_at(select_ast, tables, orders) ==
    evaluate_select_at(HeapOf(tables), select_ast, tables, orders)

---------------------------------------------------------------------------
(* lexer.py: the classification of words.  A text is the sequence of its   *)
(* characters.                                                             *)

UppercaseLetters ==
    <<        "A", "B", "C", "D", "E", "F", "G", "H", "I", "J", "K", "L", "M",
       "N", "O", "P", "Q", "R", "S", "T", "U", "V", "W", "X", "Y", "Z" >>
LowercaseLetters ==
    <<        "a", "b", "c", "d", "e", "f", "g", "h", "i", "j", "k", "l", "m",
       "n", "o", "p", "q", "r", "s", "t", "u", "v", "w", "x", "y", "z" >>

\* str.lower() on one character, then on a text.
lower_char(c) ==
    IF \E i \in DOMAIN UppercaseLetters : UppercaseLetters[i] = c
    THEN LowercaseLetters[CHOOSE i \in DOMAIN UppercaseLetters :
                             UppercaseLetters[i] = c]
    ELSE c
lower(text) == [i \in DOMAIN text |-> lower_char(text[i])]

\* The dict reserved_words, as its items.
reserved_words ==
    { [key |-> <<"s", "e", "l", "e", "c", "t">>, type |-> "SELECT"],
      [key |-> <<"f", "r", "o", "m">>, type |-> "FROM"],
      [key |-> <<"w", "h", "e", "r", "e">>, type |-> "WHERE"] }

\* reserved_words.get(value, 'ID').
reserved_words_get(value) ==
    IF \E item \in reserved_words : item.key = value
    THEN (CHOOSE item \in reserved_words : item.key = value).type
    ELSE "ID"

\* t_ID: the token of a word matched by [a-zA-Z_][a-zA-Z_0-9]*.
t_ID(t) == [type |-> reserved_words_get(lower(t)), value |-> lower(t)]

---------------------------------------------------------------------------
(* evaluator_test.py: the output names that the tests require of           *)
(* evaluate_query. The binder that assigns them is not part of the source  *)
(* tree; a query is given by its untyped select fields and by the type     *)
(* context of its FROM clause.                                             *)

Identifier(name) == [kind |-> "Identifier", name |-> name]
Expression == [kind |-> "Expression"]
UntypedSelectField(expr, alias) == [expr |-> expr, alias |-> alias]

NoColumns == TypeContext(<<>>, <<>>, {})
TestTable(qualifier) ==
    type_context_for_table(qualifier, <<"val1", "val2">>, <<"INT", "INT">>)

QueryTest(select_fields, type_ctx, names) ==
    [select_fields |-> select_fields, type_ctx |-> type_ctx, names |-> names]

\* The tests with SELECT val1 expecting the column test_table.val1.
evaluator_tests_qualified ==
    { QueryTest(<<UntypedSelectField(Identifier(<<"val1">>), None)>>,
                TestTable("test_table"), << <<"test_table", "val1">> >>) }

\* test_select_literal: SELECT 0
\* test_function_calls: SELECT ABS(-2), POW(2, 3), NOW()
\* test_select_from_table: SELECT val1 FROM test_table
\* test_multiple_select: SELECT val1 + 1 foo, val2, val2 * 2 FROM test_table
\* test_mixed_group_by:
\*     SELECT val2 % 2 AS foo, SUM(val2) AS bar FROM test_table GROUP BY ..
\* test_fully_qualified_name: SELECT test_table.val1 FROM test_table
\* test_table_alias: SELECT t.val1 FROM test_table t
evaluator_tests ==
    { QueryTest(<<UntypedSelectField(Expression, None)>>, NoColumns,
                << <<"f0_">> >>),
      QueryTest(<<UntypedSelectField(Expression, None),
                  UntypedSelectField(Expression, None),
                  UntypedSelectField(Expression, None)>>, NoColumns,
                << <<"f0_">>, <<"f1_">>, <<"f2_">> >>),
      QueryTest(<<UntypedSelectField(Identifier(<<"val1">>), None)>>,
                TestTable("test_table"), << <<"val1">> >>),
      QueryTest(<<UntypedSelectField(Expression, <<"foo">>),
                  UntypedSelectField(Identifier(<<"val2">>), None),
                  UntypedSelectField(Expression, None)>>,
                TestTable("test_table"),
                << <<"foo">>, <<"val2">>, <<"f0_">> >>),
      QueryTest(<<UntypedSelectField(Expression, <<"foo">>),
                  UntypedSelectField(Expression, <<"bar">>)>>,
                TestTable("test_table"), << <<"foo">>, <<"bar">> >>),
      QueryTest(<<UntypedSelectField(Identifier(<<"test_table", "val1">>),
                                     None)>>,
                TestTable("test_table"), << <<"test_table", "val1">> >>),
      QueryTest(<<UntypedSelectField(Identifier(<<"t", "val1">>), None)>>,
                TestTable("t"), << <<"t", "val1">> >> ) }

---------------------------------------------------------------------------
(* Input domains.                                                          *)

\* The contexts with the given column names and types, up to MaxRows rows
\* and values drawn from vals.
ContextsOver(names, types, vals) ==
    UNION { { [num_rows |-> n,
               columns |-> [i \in DOMAIN names |->
                               Item(names[i], Column(types[i], cols[i]))],
               aggregate_context |-> NoContext] :
              cols \in [DOMAIN names -> [1..n -> vals]] } :
            n \in 0..MaxRows }

MaskValues == {True, False, None}
MaskInputValues == {None, PyInt(1), PyInt(2)}
MaskInputContexts ==
    ContextsOver(<< <<"t", "a">>, <<"t", "b">> >>, <<"INT", "INT">>,
                 MaskInputValues)

OperandValues == {None} \cup {PyInt(n) : n \in (0 - MaxInt)..MaxInt}

TableNames == {"t1", "t2"}
StoreValues == {None, PyInt(1)}

\* The tables of the table-store specification: one INT column "a".
StoreTables ==
    UNION { { Table(name, n, <<Item(<<"a">>, Column("INT", values))>>) :
              name \in TableNames, values \in [1..n -> StoreValues] } :
            n \in 0..MaxStoreRows }

ColumnNames == {"a", "b", "c"}

\* The column lists of a table: up to MaxCols distinct names, in any order.
ColumnLists ==
    {cs \in SeqsUpTo(ColumnNames, MaxCols) :
        \A i, j \in DOMAIN cs : i # j => cs[i] # cs[j]}

IntTypes(cs) == [i \in DOMAIN cs |-> "INT"]

\* The type contexts of a table t1, of t1 JOIN t2 and of
\* (t1 JOIN t2) JOIN t3.
TableTypeContexts(qualifier) ==
    {type_context_for_table(qualifier, cs, IntTypes(cs)) : cs \in ColumnLists}
TypeContexts ==
    LET one == TableTypeContexts("t1")
        two == {type_context_for_join(l, r) :
                    l \in one, r \in TableTypeContexts("t2")}
        three == {type_context_for_join(l, r) :
                    l \in two, r \in TableTypeContexts("t3")}
    IN  one \cup two \cup three

\* The names a query may refer to: qualified, short and unknown ones.
ReferencedNames ==
    {<<q, c>> : q \in {"t1", "t2", "t3"}, c \in ColumnNames}
    \cup {<<c>> : c \in ColumnNames \cup {"zz"}}

\* Inputs of the select-field and GROUP BY evaluation: a table t(a, b) whose
\* values include -1 and -2.
GroupValues == {None, PyInt(-1), PyInt(-2)}
GroupInputContexts ==
    ContextsOver(<< <<"t", "a">>, <<"t", "b">> >>, <<"INT", "INT">>,
                 GroupValues)

ColA == ColumnRefExpr(<<"t", "a">>, "INT")
ColB == ColumnRefExpr(<<"t", "b">>, "INT")
SumB == AggregateFunctionCall("SUM", <<ColB>>, "INT")

\* Select-field lists without aggregates: SELECT a / a, b / b, a / 1, a /
\* a AS x, b AS x / a, a.
PlainSelectFieldLists ==
    { <<SelectField(ColA, <<"a">>)>>,
      <<SelectField(ColA, <<"a">>), SelectField(ColB, <<"bar">>)>>,
      <<SelectField(ColB, <<"bar">>), SelectField(ColA, <<"a">>)>>,
      <<SelectField(Literal(PyInt(1), "INT"), <<"f0_">>),
        SelectField(ColA, <<"a">>)>>,
      <<SelectField(ColA, <<"x">>), SelectField(ColB, <<"x">>)>>,
      <<SelectField(ColA, <<"a">>), SelectField(ColA, <<"a">>)>> }

GroupQuery(select_fields, group_set) ==
    [select_fields |-> select_fields, group_set |-> group_set]

\* SELECT SUM(b) .. GROUP BY a / SELECT a, SUM(b) .. GROUP BY a /
\* SELECT a AS cat, SUM(b) .. GROUP BY cat /
\* SELECT b AS foo, SUM(b) AS bar .. GROUP BY a, foo /
\* SELECT a AS x, SUM(b) AS x .. GROUP BY a
GroupQueries ==
    { GroupQuery(<<SelectField(SumB, <<"f0_">>)>>, GroupSet(<<ColA>>, {})),
      GroupQuery(<<SelectField(ColA, <<"a">>), SelectField(SumB, <<"f0_">>)>>,
                 GroupSet(<<ColA>>, {})),
      GroupQuery(<<SelectField(ColA, <<"cat">>),
                   SelectField(SumB, <<"f0_">>)>>,
                 GroupSet(<<>>, {<<"cat">>})),
      GroupQuery(<<SelectField(ColB, <<"foo">>),
                   SelectField(SumB, <<"bar">>)>>,
                 GroupSet(<<ColA>>, {<<"foo">>})),
      GroupQuery(<<SelectField(ColA, <<"x">>), SelectField(SumB, <<"x">>)>>,
                 GroupSet(<<ColA>>, {})) }

\* The group set the binder attaches to a query whose select fields call an
\* aggregate function and that has no GROUP BY clause: no group key, so
\* that every row has the same (empty) key.
TrivialGroupSet == GroupSet(<<>>, {})

\* SELECT SUM(b) / SELECT SUM(b), SUM(a), without GROUP BY.
SumA == AggregateFunctionCall("SUM", <<ColA>>, "INT")
AggregateSelectFieldLists ==
    { <<SelectField(SumB, <<"f0_">>)>>,
      <<SelectField(SumB, <<"f0_">>), SelectField(SumA, <<"f1_">>)>> }

\* The words given to the lexer: keywords and identifiers, in every mix of
\* upper and lower case.
upper_char(c) ==
    IF \E i \in DOMAIN LowercaseLetters : LowercaseLetters[i] = c
    THEN UppercaseLetters[CHOOSE i \in DOMAIN LowercaseLetters :
                             LowercaseLetters[i] = c]
    ELSE c
RECURSIVE Casings(_)
Casings(word) ==
    IF word = <<>> THEN {<<>>}
    ELSE {<<c>> \o rest : c \in {word[1], upper_char(word[1])},
                          rest \in Casings(Tail(word))}
LowercaseWords ==
    { <<"s", "e", "l", "e", "c", "t">>,
      <<"f", "r", "o", "m">>,
      <<"w", "h", "e", "r", "e">>,
      <<"g", "r", "o", "u", "p">>,
      <<"b", "y">>,
      <<"j", "o", "i", "n">>,
      <<"o", "n">>,
      <<"a", "s">>,
      <<"a", "n", "d">>,
      <<"o", "r">>,
      <<"n", "o", "t">>,
      <<"i", "s">>,
      <<"n", "u", "l", "l">>,
      <<"i", "n">>,
      <<"d", "i", "s", "t", "i", "n", "c", "t">>,
      <<"t", "r", "u", "e">>,
      <<"f", "a", "l", "s", "e">>,
      <<"f", "o", "o">>,
      <<"v", "a", "l", "1">>,
      <<"_", "x">>,
      <<"s", "e", "l", "e", "c", "t", "s">>,
      <<"f", "r", "o">>,
      <<"w", "h", "e", "r">> }
Words == UNION {Casings(word) : word \in LowercaseWords}

\* SELECT COUNT(b), COUNT(*), COUNT(DISTINCT b), without GROUP BY and with
\* GROUP BY a; COUNT(*) counts the literal 1.
CountFields ==
    << SelectField(AggregateFunctionCall("COUNT", <<ColB>>, "INT"),
                   <<"f0_">>),
       SelectField(AggregateFunctionCall("COUNT",
                       <<Literal(PyInt(1), "INT")>>, "INT"), <<"f1_">>),
       SelectField(AggregateFunctionCall("COUNT_DISTINCT", <<ColB>>, "INT"),
                   <<"f2_">>) >>
CountGroupSets == {TrivialGroupSet, GroupSet(<<ColA>>, {})}

\* The types of tq_types that the tests use.
ArgumentTypes == {"INT", "BOOL", "STRING"}

\* The contexts that are compared: a column a or b with nulls and ints.
ComparedContexts ==
    ContextsOver(<< <<"a">> >>, <<"INT">>, {None, PyInt(1)})
    \cup ContextsOver(<< <<"b">> >>, <<"INT">>, {PyInt(1)})

\* The tables of the query specification: t1 has no column or the columns
\* a, b; t2 has the columns b, c.
QueryValues == {None, PyInt(1)}
TablesOver(name, column_names, vals) ==
    UNION { { Table(name, n,
                    [i \in DOMAIN column_names |->
                        Item(<<column_names[i]>>, Column("INT", cols[i]))]) :
              cols \in [DOMAIN column_names -> [1..n -> vals]] } :
            n \in 0..MaxRows }
QueryTables1 ==
    {Table("t1", n, <<>>) : n \in 0..MaxRows}
    \cup TablesOver("t1", <<"a", "b">>, QueryValues)
QueryTables2 == TablesOver("t2", <<"b", "c">>, QueryValues)

\* The typed table expression of a stored table.
TableExprOf(name, tables) ==
    LET table == tables[name]
    IN  TableExpr(name,
            type_context_for_table(name,
                [i \in DOMAIN table.columns |-> table.columns[i].name[1]],
                [i \in DOMAIN table.columns |-> table.columns[i].column.type]))

\* The short-named columns of the children, each once, in order of first
\* appearance.
RECURSIVE ShortColumnsOf(_)
ShortColumnsOf(type_columns) ==
    IF type_columns = <<>> THEN <<>>
    ELSE LET n == Len(type_columns)
             init == ShortColumnsOf(SubSeq(type_columns, 1, n - 1))
             short == short_column_name(type_columns[n].name)
         IN  IF \E i \in DOMAIN init : init[i].name = short THEN init
             ELSE Append(init, [name |-> short, type |-> type_columns[n].type])

\* The column lists of the type context of the union of two children: the
\* columns of both, or those of the first child.
UnionColumnLists(child1, child2) ==
    { ShortColumnsOf(child1.type_ctx.columns \o child2.type_ctx.columns),
      ShortColumnsOf(child1.type_ctx.columns) }

\* The sides of a join: t1 with the column a and t2 with the column b, and
\* the ON conditions over them.
JoinValues == {None, False, True}
JoinLeftContexts == ContextsOver(<< <<"t1", "a">> >>, <<"INT">>, JoinValues)
JoinRightContexts == ContextsOver(<< <<"t2", "b">> >>, <<"INT">>, JoinValues)
JoinA == ColumnRefExpr(<<"t1", "a">>, "INT")
JoinB == ColumnRefExpr(<<"t2", "b">>, "INT")
JoinConditions ==
    { FunctionCall("=", <<JoinA, JoinB>>, "BOOL"),
      FunctionCall("<", <<JoinA, JoinB>>, "BOOL"),
      ColumnRefExpr(<<"t1", "a">>, "BOOL"),
      Literal(None, "BOOL"),
      Literal(True, "BOOL") }

\* The queries of the effects specification, compiled for the stored tables:
\*   SELECT * FROM t2
\*   SELECT b FROM t2 WHERE c = 1
\*   SELECT b FROM t2 WHERE c        (c holds nulls and ints)
\*   SELECT b FROM t1, t2
\*   SELECT b, SUM(c) FROM t2 GROUP BY b
QueryKinds == {"select_star", "where", "where_column", "union", "group_by"}
T2B == ColumnRefExpr(<<"t2", "b">>, "INT")
T2C == ColumnRefExpr(<<"t2", "c">>, "INT")
QueryOn(query, tables) ==
    CASE query = "select_star" -> compile_select_star("t2", tables["t2"])
      [] query = "where" ->
            Select(<<SelectField(T2B, <<"b">>)>>, TableExprOf("t2", tables),
                   FunctionCall("=", <<T2C, Literal(PyInt(1), "INT")>>,
                                "BOOL"),
                   NoGroupSet)
      [] query = "where_column" ->
            Select(<<SelectField(T2B, <<"b">>)>>, TableExprOf("t2", tables),
                   T2C, NoGroupSet)
      [] query = "union" ->
            Select(<<SelectField(ColumnRefExpr(<<"b">>, "INT"), <<"b">>)>>,
                   TableUnion(<<TableExprOf("t1", tables),
                                TableExprOf("t2", tables)>>,
                       type_context_for_union(ShortColumnsOf(
                           TableExprOf("t1", tables).type_ctx.columns
                           \o TableExprOf("t2", tables).type_ctx.columns))),
                   Literal(True, "BOOL"), NoGroupSet)
      [] query = "group_by" ->
            Select(<<SelectField(T2B, <<"b">>),
                     SelectField(AggregateFunctionCall("SUM", <<T2C>>, "INT"),
                                 <<"f0_">>)>>,
                   TableExprOf("t2", tables), Literal(True, "BOOL"),
                   GroupSet(<<T2B>>, {}))

IdentityOrders == [n \in 0..(MaxRows + 1) |-> [k \in 1..n |-> k]]

---------------------------------------------------------------------------
(* The pipeline of evaluate_query: the text is lexed, parsed and bound     *)
(* (compiler.compile_text), then evaluated (evaluate_select). A query text *)
(* is the sequence of its blank-separated lexemes, each a sequence of      *)
(* characters. The parser and the binder are not part of the source tree.  *)

Digits == <<"0", "1", "2", "3", "4", "5", "6", "7", "8", "9">>
IsDigit(c) == \E d \in DOMAIN Digits : Digits[d] = c
IsIdStart(c) ==
    \/ c = "_"
    \/ lower_char(c) \in {LowercaseLetters[i] : i \in DOMAIN LowercaseLetters}

\* int(token.value) of t_NUMBER
RECURSIVE int(_)
int(text) ==
    IF text = <<>> THEN 0
    ELSE 10 * int(SubSeq(text, 1, Len(text) - 1))
         + (CHOOSE d \in DOMAIN Digits : Digits[d] = text[Len(text)]) - 1

\* lex.token() on a lexeme: t_ID for a word, t_NUMBER for digits, t_error
\* for a character that no rule matches.
token(lexeme) ==
    IF /\ IsIdStart(lexeme[1])
       /\ \A i \in DOMAIN lexeme : IsIdStart(lexeme[i]) \/ IsDigit(lexeme[i])
    THEN t_ID(lexeme)
    ELSE IF \A i \in DOMAIN lexeme : IsDigit(lexeme[i])
    THEN [type |-> "NUMBER", value |-> int(lexeme)]
    ELSE Raise("SyntaxError")

\* lex_text with a t_error that skips the character instead of raising.
lex_text_skipping_errors(text) ==
    [tokens |-> SelectSeq([k \in DOMAIN text |-> token(text[k])],
                          LAMBDA t : ~IsError(t))]

\* lex_text: the list of the tokens of the text, or the SyntaxError that
\* t_error raises at the first character that is no token.
lex_text(text) ==
    LET tokens == [k \in DOMAIN text |-> token(text[k])]
    IN  IF HasError(tokens) THEN FirstError(tokens)
        ELSE [tokens |-> tokens]

\* The parser, for the grammar SELECT <name or number> [FROM <name>].
parse(tokens) ==
    LET types == [k \in DOMAIN tokens |-> tokens[k].type]
    IN  IF types \in {<<"SELECT", "ID">>, <<"SELECT", "NUMBER">>}
        THEN [select_field |-> tokens[2], table |-> None]
        ELSE IF types \in {<<"SELECT", "ID", "FROM", "ID">>,
                           <<"SELECT", "NUMBER", "FROM", "ID">>}
        THEN [select_field |-> tokens[2], table |-> tokens[4].value]
        ELSE Raise("ParseError")

\* The string of a sequence of characters.
RECURSIVE str(_)
str(text) == IF text = <<>> THEN "" ELSE text[1] \o str(Tail(text))

\* The binder: the table must be stored, the name must resolve to one of
\* its columns.
compile_table(table, tables) ==
    IF IsNone(table) THEN NoTable
    ELSE IF str(table) \in DOMAIN tables THEN TableExprOf(str(table), tables)
    ELSE Raise("CompileError: Table not found")
compile_column(name, ref) ==
    IF IsError(ref) THEN ref
    ELSE SelectField(ColumnRefExpr(ref.column, ref.type), <<name>>)
compile_select_field(select_field, table_expr) ==
    IF IsError(table_expr) THEN table_expr
    ELSE IF select_field.type = "NUMBER"
    THEN SelectField(Literal(PyInt(select_field.value), "INT"), <<"f0_">>)
    ELSE IF table_expr = NoTable THEN Raise("CompileError: Field not found")
    ELSE compile_column(str(select_field.value),
             column_ref_for_name(table_expr.type_ctx,
                                 <<str(select_field.value)>>))
compile_select_of(typed_field, table_expr) ==
    IF IsError(typed_field) THEN typed_field
    ELSE Select(<<typed_field>>, table_expr, Literal(True, "BOOL"),
                NoGroupSet)
compile_select(select, tables) ==
    compile_select_of(
        compile_select_field(select.select_field,
                             compile_table(select.table, tables)),
        compile_table(select.table, tables))

\* The stages of evaluate_query in the order of the calls, and what a stage
\* makes of the outcome of the stage before it.
Stages == <<"lex", "parse", "bind", "evaluate">>
run_stage(stage, input, tables) ==
    CASE stage = "lex" -> lex_text(input)
      [] stage = "parse" -> parse(input.tokens)
      [] stage = "bind" -> compile_select(input, tables)
      [] stage = "evaluate" -> evaluate_select(input, tables, IdentityOrders)

\* The call of evaluate_query after a stage ended with outcome: an
\* exception ends the call, a result is the input of the next stage and
\* the result of the last stage is returned.
evaluate_query_stage(query, stage, outcome) ==
    [query EXCEPT
        !.ran = Append(@, Stages[stage]),
        !.stage = IF IsError(outcome) THEN "raised"
                  ELSE IF stage = Len(Stages) THEN "returned"
                  ELSE Stages[stage + 1],
        !.input = outcome]

\* The query texts: up to MaxTextLen lexemes out of select, from, t1, a, 1
\* and the character $.
PipelineLexemes ==
    { <<"s", "e", "l", "e", "c", "t">>, <<"f", "r", "o", "m">>, <<"t", "1">>, <<"a">>, <<"1">>, <<"$">> }
PipelineTexts == SeqsUpTo(PipelineLexemes, MaxTextLen)

\* The stored table t1: without columns, or with the columns a and b and at
\* most one row.
PipelineTables ==
    {Table("t1", 1, <<>>)}
    \cup {table \in TablesOver("t1", <<"a", "b">>, {PyInt(1)}) :
             table.num_rows <= 1}

---------------------------------------------------------------------------
(* Actions.                                                                *)

Idle == [op |-> "idle"]
NoResult == [none |-> TRUE]

Init ==
    /\ tables_by_name = <<>>
    /\ loaded = <<>>
    /\ call = Idle
    /\ result = NoResult

\* mask_context applied to a table context and a WHERE mask.
MaskContext ==
    /\ call = Idle
    /\ \E context \in MaskInputContexts :
         \E mask \in [1..context.num_rows -> MaskValues] :
            /\ call' = [op |-> "mask_context", context |-> context,
                        mask |-> mask]
            /\ result' = mask_context(context, mask)
    /\ UNCHANGED <<tables_by_name, loaded>>

\* One row of a binary operator of the registry applied to two operands.
BinaryOperator ==
    /\ call = Idle
    /\ \E name \in ArithmeticNames \cup ComparisonNames :
         \E arg1 \in OperandValues, arg2 \in OperandValues :
            /\ call' = [op |-> "binary_operator", name |-> name,
                        arg1 |-> arg1, arg2 |-> arg2]
            /\ result' = get_binary_op_evaluate(name, arg1, arg2)
    /\ UNCHANGED <<tables_by_name, loaded>>

\* A name resolved in the type context of a table expression.
ColumnRefForName ==
    /\ call = Idle
    /\ \E type_ctx \in TypeContexts, name \in ReferencedNames :
         /\ call' = [op |-> "column_ref_for_name", type_ctx |-> type_ctx,
                     name |-> name]
         /\ result' = column_ref_for_name(type_ctx, name)
    /\ UNCHANGED <<tables_by_name, loaded>>

\* The select fields of a query without GROUP BY evaluated on the filtered
\* context.
EvaluateSelectFields ==
    /\ call = Idle
    /\ \E select_fields \in PlainSelectFieldLists,
          context \in GroupInputContexts :
         /\ call' = [op |-> "evaluate_select_fields",
                     select_fields |-> select_fields,
                     select_context |-> context]
         /\ result' = evaluate_select_fields(select_fields, context)
    /\ UNCHANGED <<tables_by_name, loaded>>

\* The select fields of a GROUP BY query evaluated on the filtered context.
EvaluateGroups ==
    /\ call = Idle
    /\ \E query \in GroupQueries, context \in GroupInputContexts :
         LET n == num_groups(group_contexts_of(query.select_fields,
                                               query.group_set, context))
         IN  \E order \in IterationOrders(n) :
               /\ call' = [op |-> "evaluate_groups",
                           select_fields |-> query.select_fields,
                           group_set |-> query.group_set,
                           select_context |-> context]
               /\ result' = evaluate_groups(query.select_fields,
                                            query.group_set, context, order)
    /\ UNCHANGED <<tables_by_name, loaded>>

\* evaluate_select of an aggregate query without GROUP BY: the table context
\* is filtered by the WHERE mask, then the select fields are evaluated with
\* the group set of the query.
EvaluateAggregate ==
    /\ call = Idle
    /\ \E select_fields \in AggregateSelectFieldLists,
          context \in GroupInputContexts :
         \E mask \in [1..context.num_rows -> {True, False}] :
            \E select_context \in {mask_context(context, mask)} :
               \E order \in IterationOrders(num_groups(group_contexts_of(
                               select_fields, TrivialGroupSet,
                               select_context))) :
                  /\ call' = [op |-> "evaluate_aggregate",
                              select_fields |-> select_fields,
                              context |-> context, mask |-> mask]
                  /\ result' = evaluate_groups(select_fields,
                                   TrivialGroupSet, select_context, order)
    /\ UNCHANGED <<tables_by_name, loaded>>

\* The lexer's rule t_ID applied to a word of the query text.
LexWord ==
    /\ call = Idle
    /\ \E text \in Words :
         /\ call' = [op |-> "t_ID", text |-> text]
         /\ result' = t_ID(text)
    /\ UNCHANGED <<tables_by_name, loaded>>

\* assert_query_result of a test: evaluate_query gives the columns that the
\* test expects, under their names.
AssertQueryResult ==
    /\ call = Idle
    /\ \E test \in evaluator_tests :
         /\ call' = [op |-> "assert_query_result",
                     select_fields |-> test.select_fields,
                     type_ctx |-> test.type_ctx]
         /\ result' = [names |-> test.names]
    /\ UNCHANGED <<tables_by_name, loaded>>

\* The COUNT aggregates evaluated on the groups of the filtered context;
\* order is the order in which the groups are visited.
EvaluateCount ==
    /\ call = Idle
    /\ \E group_set \in CountGroupSets, context \in GroupInputContexts :
         \E order \in IterationOrders(num_groups(group_contexts_of(
                         CountFields, group_set, context))) :
            /\ call' = [op |-> "evaluate_count", group_set |-> group_set,
                        select_context |-> context, order |-> order]
            /\ result' = evaluate_groups(CountFields, group_set, context,
                                         order)
    /\ UNCHANGED <<tables_by_name, loaded>>

\* check_types of an operator of the registry on the types of its
\* arguments.
CheckTypes ==
    /\ call = Idle
    /\ \/ \E name \in ArithmeticNames \cup ComparisonNames :
            \E type1 \in ArgumentTypes, type2 \in ArgumentTypes :
               /\ call' = [op |-> "check_types", name |-> name,
                           arg_types |-> <<type1, type2>>]
               /\ result' = get_binary_op_check_types(name, type1, type2)
       \/ \E name \in UnaryNames, arg \in ArgumentTypes :
            /\ call' = [op |-> "check_types", name |-> name,
                        arg_types |-> <<arg>>]
            /\ result' = get_unary_op_check_types(name, arg)
    /\ UNCHANGED <<tables_by_name, loaded>>

\* a == b on two contexts, as a condition (assertEqual, key lookup in a
\* dict), and whether hash(a) == hash(b).
ContextEq ==
    /\ call = Idle
    /\ \E a \in ComparedContexts, b \in ComparedContexts :
         /\ call' = [op |-> "Context.__eq__", a |-> a, b |-> b]
         /\ result' = [equal |-> TupleTruthy(Context__eq__(a, b)),
                       same_hash |-> Context__hash__(a) = Context__hash__(b)]
    /\ UNCHANGED <<tables_by_name, loaded>>

\* The evaluation context of one group of a GROUP BY query (second loop of
\* evaluate_groups) and SUM(b) evaluated in it.
EvaluateInGroup ==
    /\ call = Idle
    /\ \E query \in GroupQueries, context \in GroupInputContexts :
         \E built \in {group_contexts_of(query.select_fields,
                                         query.group_set, context)} :
            \E group \in 1..num_groups(built) :
               \E eval_context \in {group_eval_context(
                                       built.groups[group].key,
                                       built.groups[group].context)} :
                  /\ call' = [op |-> "group_eval_context",
                              group_set |-> query.group_set,
                              select_context |-> context,
                              key |-> built.groups[group].key,
                              rows |-> built.groups[group].rows]
                  /\ result' = [context |-> eval_context,
                                aggregate |-> evaluate_expr(SumB,
                                                            eval_context)]
    /\ UNCHANGED <<tables_by_name, loaded>>

\* A JOIN of two evaluated sides on an ON condition.
EvaluateJoin ==
    /\ call = Idle
    /\ \E context1 \in JoinLeftContexts, context2 \in JoinRightContexts,
          condition \in JoinConditions :
         /\ call' = [op |-> "eval_table_Join", context1 |-> context1,
                     context2 |-> context2, condition |-> condition]
         /\ result' = eval_table_Join(context1, context2, condition)
    /\ UNCHANGED <<tables_by_name, loaded>>

Next ==
    \/ MaskContext
    \/ BinaryOperator
    \/ ColumnRefForName
    \/ EvaluateSelectFields
    \/ EvaluateGroups
    \/ EvaluateAggregate
    \/ LexWord
    \/ AssertQueryResult
    \/ EvaluateCount
    \/ CheckTypes
    \/ ContextEq
    \/ EvaluateInGroup
    \/ EvaluateJoin

Spec == Init /\ [][Next]_vars

---------------------------------------------------------------------------
(* The table-store specification: load_table and get_all_tables calls.     *)

LoadTable ==
    /\ Len(loaded) < MaxLoads
    /\ \E table \in StoreTables :
         /\ tables_by_name' = load_table(tables_by_name, table)
         /\ loaded' = Append(loaded, table)
         /\ call' = [op |-> "load_table", table |-> table]
         /\ result' = NoResult

GetAllTables ==
    /\ call' = [op |-> "get_all_tables"]
    /\ result' = get_all_tables(tables_by_name)
    /\ UNCHANGED <<tables_by_name, loaded>>

NextStore ==
    \/ LoadTable
    \/ GetAllTables

SpecStore == Init /\ [][NextStore]_vars

---------------------------------------------------------------------------
(* The query specification: queries on a store holding two loaded tables.  *)

InitQuery ==
    /\ \E t1 \in QueryTables1, t2 \in QueryTables2 :
          /\ tables_by_name = load_table(load_table(<<>>, t1), t2)
          /\ loaded = <<t1, t2>>
    /\ call = Idle
    /\ result = NoResult

\* evaluate_query("SELECT * FROM <name>")
SelectStar ==
    /\ call = Idle
    /\ \E name \in DOMAIN tables_by_name :
         LET select_ast == compile_select_star(name, tables_by_name[name])
         IN  /\ call' = [op |-> "evaluate_query", query |-> "select_star",
                         name |-> name, select_ast |-> select_ast]
             /\ result' = evaluate_query(select_ast, tables_by_name,
                                         IdentityOrders)
    /\ UNCHANGED <<tables_by_name, loaded>>

\* evaluate_table_expr of the comma union of the two stored tables.
EvaluateTableUnion ==
    /\ call = Idle
    /\ \E names \in {<<"t1", "t2">>, <<"t2", "t1">>} :
         LET child1 == TableExprOf(names[1], tables_by_name)
             child2 == TableExprOf(names[2], tables_by_name)
         IN  \E columns \in UnionColumnLists(child1, child2) :
               LET table_expr ==
                       TableUnion(<<child1, child2>>,
                                  type_context_for_union(columns))
               IN  /\ call' = [op |-> "evaluate_table_expr",
                               table_expr |-> table_expr]
                   /\ result' = evaluate_table_expr(table_expr,
                                    tables_by_name, IdentityOrders)
    /\ UNCHANGED <<tables_by_name, loaded>>

NextQuery ==
    \/ SelectStar
    \/ EvaluateTableUnion

SpecQuery == InitQuery /\ [][NextQuery]_vars

---------------------------------------------------------------------------
(* The effects specification: a query on a store of two loaded tables      *)
(* whose lists the contexts of the query may share.                        *)

\* What a call of evaluate_query leaves: the returned Context or the
\* exception raised, and the stored tables as the heap shows them.
query_outcome(tables, done) ==
    [result |-> IF IsError(done.at) THEN done.at
                ELSE Deref(done.heap, done.at),
     tables |-> ReadTables(tables, done.heap)]

EvaluateQuery ==
    /\ call = Idle
    /\ \E query \in QueryKinds :
         \E outcome \in
              {query_outcome(tables_by_name,
                  evaluate_query_at(QueryOn(query, tables_by_name),
                                    tables_by_name, IdentityOrders))} :
            /\ call' = [op |-> "evaluate_query", query |-> query,
                        select_ast |-> QueryOn(query, tables_by_name)]
            /\ result' = outcome.result
            /\ tables_by_name' = outcome.tables
    /\ UNCHANGED loaded

NextEffects == EvaluateQuery

SpecEffects == InitQuery /\ [][NextEffects]_vars

---------------------------------------------------------------------------
(* The pipeline specification: evaluate_query on a query text, stage by    *)
(* stage, on a store holding one table.                                    *)

InitPipeline ==
    /\ \E t1 \in PipelineTables :
          /\ tables_by_name = load_table(<<>>, t1)
          /\ loaded = <<t1>>
    /\ call = Idle
    /\ result = NoResult

\* evaluate_query(query) is called.
StartQuery ==
    /\ call = Idle
    /\ \E text \in PipelineTexts :
         call' = [op |-> "evaluate_query", text |-> text, stage |-> "lex",
                  ran |-> <<>>, input |-> text]
    /\ result' = NoResult
    /\ UNCHANGED <<tables_by_name, loaded>>

\* What the caller of evaluate_query has in hand.
returned(query) ==
    IF query.stage \in {"raised", "returned"} THEN query.input ELSE NoResult

\* One stage of the call runs.
RunStage(stage) ==
    /\ call.op = "evaluate_query"
    /\ call.stage = Stages[stage]
    /\ \E query \in {evaluate_query_stage(call, stage,
                        run_stage(Stages[stage], call.input,
                                  tables_by_name))} :
          /\ call' = query
          /\ result' = returned(query)
    /\ UNCHANGED <<tables_by_name, loaded>>

Lex == RunStage(1)
Parse == RunStage(2)
Bind == RunStage(3)
Evaluate == RunStage(4)

NextPipeline ==
    \/ StartQuery
    \/ Lex
    \/ Parse
    \/ Bind
    \/ Evaluate

SpecPipeline == InitPipeline /\ [][NextPipeline]_vars

---------------------------------------------------------------------------
(* The context specification: a Context is constructed, then rows are      *)
(* appended to it in place; result is the Context, or the exception that   *)
(* ended the call.                                                         *)

\* The columns given to the constructor: none, a, or a and b, each with up
\* to MaxRows values.
ConstructorColumns ==
    UNION { [1..n -> {Item(name, Column("INT", values)) :
                         name \in {<<"a">>, <<"b">>},
                         values \in SeqsUpTo({None, PyInt(1)}, MaxRows)}] :
            n \in 0..2 }

\* The contexts that rows are taken from: columns under short or qualified
\* names, also without the column b.
SourceContexts ==
    ContextsOver(<< <<"a">>, <<"b">> >>, <<"INT", "INT">>, {None, PyInt(1)})
    \cup ContextsOver(<< <<"a">> >>, <<"INT">>, {PyInt(1)})
    \cup ContextsOver(<< <<"t", "a">> >>, <<"INT">>, {PyInt(1)})

ConstructContext ==
    /\ call = Idle
    /\ \E num_rows \in 0..MaxRows, columns \in ConstructorColumns :
         /\ call' = [op |-> "Context", num_rows |-> num_rows,
                     columns |-> columns]
         /\ result' = Context(num_rows, OrderedDict(columns), NoContext)
    /\ UNCHANGED <<tables_by_name, loaded>>

AppendRowToContext ==
    /\ "num_rows" \in DOMAIN result
    /\ result.num_rows < MaxRows
    /\ \E src_context \in SourceContexts, index \in 1..MaxRows :
         /\ call' = [op |-> "append_row_to_context", src |-> src_context,
                     index |-> index, dest |-> result]
         /\ result' = append_row_to_context(src_context, index, result)
    /\ UNCHANGED <<tables_by_name, loaded>>

AppendPartialContextToContext ==
    /\ "num_rows" \in DOMAIN result
    /\ \E src_context \in SourceContexts :
         /\ result.num_rows + src_context.num_rows <= MaxRows
         /\ call' = [op |-> "append_partial_context_to_context",
                     src |-> src_context, dest |-> result]
         /\ result' = append_partial_context_to_context(src_context, result)
    /\ UNCHANGED <<tables_by_name, loaded>>

NextContext ==
    \/ ConstructContext
    \/ AppendRowToContext
    \/ AppendPartialContextToContext

SpecContext == Init /\ [][NextContext]_vars

---------------------------------------------------------------------------
(* Claims.                                                                 *)

\* The indices i of mask with mask[i] definitely true, in increasing order.
RECURSIVE TrueIndices(_, _)
TrueIndices(mask, from) ==
    IF from > Len(mask) THEN <<>>
    ELSE (IF mask[from] = True THEN <<from>> ELSE <<>>)
         \o TrueIndices(mask, from + 1)

\* C1: WHERE filtering keeps row i iff mask[i] is definitely true: the
\* filtered context has the same columns in the same order, as many rows as
\* the mask has true entries, the kept rows in their original order, and
\* rows whose mask entry is null or false are dropped.
C1_WhereKeepsExactlyTrueRows ==
    call.op = "mask_context" =>
        LET kept == TrueIndices(call.mask, 1)
            source == call.context.columns
        IN  /\ ~IsError(result)
            /\ result.num_rows = Len(kept)
            /\ Len(result.columns) = Len(source)
            /\ \A c \in DOMAIN source :
                 /\ result.columns[c].name = source[c].name
                 /\ result.columns[c].column.type = source[c].column.type
                 /\ result.columns[c].column.values =
                      [k \in DOMAIN kept |-> source[c].column.values[kept[k]]]

\* C3: a null operand of a binary arithmetic or comparison operator gives a
\* null result for that row (not true, not false, not an error).
C3_NullOperandGivesNull ==
    (call.op = "binary_operator" /\ (IsNone(call.arg1) \/ IsNone(call.arg2)))
        => result = [value |-> None]

\* The columns of a type context whose short name is the given name.
Candidates(type_ctx, name) ==
    {i \in DOMAIN type_ctx.columns :
        short_column_name(type_ctx.columns[i].name) = name}

\* C9: a name resolves to the column of that exact qualified name, else to
\* the only column with that short name; a short name carried by two or more
\* columns fails as ambiguous, and a name matching nothing fails as not
\* found.
C9_NameResolution ==
    call.op = "column_ref_for_name" =>
        LET columns == call.type_ctx.columns
            name == call.name
            cands == Candidates(call.type_ctx, name)
        IN  IF HasColumn(columns, name)
            THEN result = ColumnRef(name, TypeOf(columns, name))
            ELSE IF Cardinality(cands) = 1
            THEN \E i \in cands :
                    result = ColumnRef(columns[i].name, columns[i].type)
            ELSE IF Cardinality(cands) >= 2
            THEN result = Raise("CompileError: Ambiguous field")
            ELSE result = Raise("CompileError: Field not found")

\* A short name that two of three joined tables define was referenced
\* unqualified and failed as ambiguous.
C9_Witness ==
    /\ call.op = "column_ref_for_name"
    /\ Len(call.name) = 1
    /\ Cardinality(Candidates(call.type_ctx, call.name)) = 2
    /\ Len(call.type_ctx.columns) >= 4
    /\ result = Raise("CompileError: Ambiguous field")

\* The last table of the load history with the given name.
LastLoaded(name) ==
    loaded[CHOOSE i \in DOMAIN loaded :
              /\ loaded[i].name = name
              /\ \A j \in DOMAIN loaded : loaded[j].name = name => j <= i]

\* C10: after any sequence of load_table calls the store maps each loaded
\* name to the table most recently loaded under it (a reload replaces that
\* entry only), and get_all_tables returns that mapping.
C10_StoreHoldsMostRecentTable ==
    /\ DOMAIN tables_by_name = {loaded[i].name : i \in DOMAIN loaded}
    /\ \A name \in DOMAIN tables_by_name :
          tables_by_name[name] = LastLoaded(name)
    /\ call.op = "get_all_tables" =>
          /\ DOMAIN result.tables = {loaded[i].name : i \in DOMAIN loaded}
          /\ \A name \in DOMAIN result.tables :
                result.tables[name] = LastLoaded(name)

\* A name was loaded twice with different tables while another name is in
\* the store, and get_all_tables was called.
C10_Witness ==
    /\ call.op = "get_all_tables"
    /\ Cardinality(DOMAIN tables_by_name) = 2
    /\ \E i, j \in DOMAIN loaded :
          i < j /\ loaded[i].name = loaded[j].name /\ loaded[i] # loaded[j]

\* C4: the result has exactly as many columns as the select-field list has
\* fields, in the order of the list, with or without GROUP BY, also when two
\* select fields have the same output name.
C4_OneColumnPerSelectField ==
    call.op \in {"evaluate_select_fields", "evaluate_groups"} =>
        /\ ~IsError(result)
        /\ Len(result.columns) = Len(call.select_fields)
        /\ \A f \in DOMAIN call.select_fields :
              result.columns[f].name = call.select_fields[f].alias

\* The group-key values of row i of the filtered context: the values of the
\* field_groups columns, then of the sorted alias_groups.
GroupKeyValues(select_fields, group_set, select_context, i) ==
    LET alias_group_list == sorted(group_set.alias_groups)
        alias_context ==
            evaluate_select_fields(
                SelectSeq(select_fields,
                          LAMBDA f : f.alias \in group_set.alias_groups),
                select_context)
    IN  [g \in DOMAIN group_set.field_groups |->
            Get(select_context.columns,
                group_set.field_groups[g].column).values[i]]
        \o
        [g \in DOMAIN alias_group_list |->
            Get(alias_context.columns, alias_group_list[g]).values[i]]

\* C5: two rows are in the same group iff their group-key tuples are equal
\* value by value (null equal to null); every row is in exactly one group;
\* the result has one row per distinct group key.
C5_GroupsAreTheDistinctKeys ==
    call.op = "evaluate_groups" =>
        LET built == group_contexts_of(call.select_fields, call.group_set,
                                       call.select_context)
            rows == 1..call.select_context.num_rows
            KeyOf(i) == GroupKeyValues(call.select_fields, call.group_set,
                                       call.select_context, i)
            GroupsOf(i) == {g \in DOMAIN built.groups :
                               \E k \in DOMAIN built.groups[g].rows :
                                  built.groups[g].rows[k] = i}
        IN  /\ ~IsError(built)
            /\ ~IsError(result)
            /\ \A i \in rows : Cardinality(GroupsOf(i)) = 1
            /\ \A i, j \in rows :
                  (GroupsOf(i) = GroupsOf(j)) <=> (KeyOf(i) = KeyOf(j))
            /\ result.num_rows = Cardinality({KeyOf(i) : i \in rows})

\* Row i of a context, and whether two contexts hold the same rows as
\* unordered collections.
RowAt(context, i) ==
    [c \in DOMAIN context.columns |-> context.columns[c].column.values[i]]
RowCount(context, row) ==
    Cardinality({i \in 1..context.num_rows : RowAt(context, i) = row})
SameRows(context1, context2) ==
    /\ context1.num_rows = context2.num_rows
    /\ \A i \in 1..context1.num_rows :
          RowCount(context1, RowAt(context1, i))
              = RowCount(context2, RowAt(context1, i))

\* The context with its rows rearranged: row k of the result is row perm[k].
PermuteRows(context, perm) ==
    [context EXCEPT
        !.columns = [c \in DOMAIN @ |->
            Item(@[c].name,
                 Column(@[c].column.type,
                        [k \in DOMAIN perm |-> @[c].column.values[perm[k]]]))]]

\* C6: a GROUP BY query returns the same result rows, as an unordered
\* collection, for every permutation of the rows of its input.
C6_GroupByIgnoresRowOrder ==
    (call.op = "evaluate_groups" /\ ~IsError(result)) =>
        \A perm \in IterationOrders(call.select_context.num_rows) :
            LET permuted == PermuteRows(call.select_context, perm)
                built == group_contexts_of(call.select_fields, call.group_set,
                                           permuted)
                other == evaluate_groups(call.select_fields, call.group_set,
                            permuted,
                            [k \in 1..Len(built.groups) |-> k])
            IN  ~IsError(other) /\ SameRows(other, result)

\* The value of the ON condition on a left value l and a right value r.
OnValue(condition, l, r) ==
    CASE condition.kind = "Literal" -> condition.value
      [] condition.kind = "ColumnRef" -> l
      [] condition.kind = "FunctionCall" ->
            get_binary_op_evaluate(condition.func, l, r).value

Contribution(table, short) ==
    IF \E i \in DOMAIN table.columns : table.columns[i].name = short
    THEN table.columns[CHOOSE i \in DOMAIN table.columns :
                          table.columns[i].name = short].column.values
    ELSE [k \in 1..table.num_rows |-> None]

\* C7: a comma union of stored tables has the columns of its type context
\* under their short names; its row count is the sum of the children's, and
\* each column holds, child after child, the child's values
\* or one null per row of a child without that column.
C7_UnionConcatenatesChildren ==
    LET Child(k) == tables_by_name[call.table_expr.tables[k].name]
    IN  (call.op = "evaluate_table_expr"
         /\ call.table_expr.kind = "TableUnion")
        =>
        LET children == [k \in DOMAIN call.table_expr.tables |-> Child(k)]
            columns == call.table_expr.type_ctx.columns
        IN  /\ ~IsError(result)
            /\ result.num_rows =
                  Len(Concat([k \in DOMAIN children |->
                                 [r \in 1..children[k].num_rows |-> r]]))
            /\ Len(result.columns) = Len(columns)
            /\ \A c \in DOMAIN columns :
                  /\ result.columns[c].name = columns[c].name
                  /\ Len(columns[c].name) = 1
                  /\ result.columns[c].column.values =
                        Concat([k \in DOMAIN children |->
                                   Contribution(children[k], columns[c].name)])

\* SELECT * FROM t returned t: the same row count, and the columns of t in
\* order with their names, types and values.
ReturnsTable(table) ==
    /\ ~IsError(result)
    /\ result.num_rows = table.num_rows
    /\ Len(result.columns) = Len(table.columns)
    /\ \A c \in DOMAIN table.columns :
          /\ result.columns[c].name = table.columns[c].name
          /\ result.columns[c].column = table.columns[c].column

\* C8: SELECT * FROM t reproduces every loaded table t.
C8_SelectStarReturnsEveryTable ==
    (call.op = "evaluate_query" /\ call.query = "select_star")
        => ReturnsTable(tables_by_name[call.name])

\* C11: every call of evaluate_query, whether it returns or raises, leaves
\* the table store as it was: the same names, and for each table the same
\* row count and the same columns in the same order with the same types and
\* values.
C11_QueriesLeaveTablesUnchanged ==
    [][call'.op = "evaluate_query" => tables_by_name' = tables_by_name]_vars

\* A GROUP BY query returned two groups and a comma-union query returned
\* rows of both tables: queries that appended rows to contexts in place.
C11_Witness ==
    /\ call.op = "evaluate_query"
    /\ ~IsError(result)
    /\ \/ call.query = "group_by" /\ result.num_rows = 2
       \/ call.query = "union" /\ result.num_rows = 4

\* The sum of the non-null values of column name in the rows of context
\* that mask keeps, null when there is none.
SumOfKept(context, mask, name) ==
    LET kept == TrueIndices(mask, 1)
        values == [k \in DOMAIN kept |->
                     Get(context.columns, name).values[kept[k]]]
        non_null == SelectSeq(values, LAMBDA v : ~IsNone(v))
    IN  IF non_null = <<>> THEN None ELSE PyInt(SeqSum(non_null))

\* C12: a query that calls an aggregate function and has no GROUP BY gives
\* exactly one row, whose aggregate values are computed over all the rows
\* that WHERE keeps, whatever the table holds and whatever WHERE keeps (no
\* row included).
C12_AggregateWithoutGroupByGivesOneRow ==
    call.op = "evaluate_aggregate" =>
        /\ ~IsError(result)
        /\ result.num_rows = 1
        /\ \A f \in DOMAIN call.select_fields :
              result.columns[f].column.values =
                 <<SumOfKept(call.context, call.mask,
                             call.select_fields[f].expr.args[1].column)>>

\* The reserved words that the specification lists.
SpecifiedReservedWords ==
    { <<"s", "e", "l", "e", "c", "t">>,
      <<"f", "r", "o", "m">>,
      <<"w", "h", "e", "r", "e">>,
      <<"g", "r", "o", "u", "p">>,
      <<"b", "y">>,
      <<"j", "o", "i", "n">>,
      <<"o", "n">>,
      <<"a", "s">>,
      <<"a", "n", "d">>,
      <<"o", "r">>,
      <<"n", "o", "t">>,
      <<"i", "s">>,
      <<"n", "u", "l", "l">>,
      <<"i", "n">>,
      <<"d", "i", "s", "t", "i", "n", "c", "t">>,
      <<"t", "r", "u", "e">>,
      <<"f", "a", "l", "s", "e">> }

\* C13: the lexer folds a word to lowercase before it classifies it; the
\* word is a keyword iff its lowercase form is one of the reserved words
\* select, from, where, group, by, join, on, as, and, or, not, is, null, in,
\* distinct, true, false, whatever its case; any other word is an ID whose
\* text is the lowercase form.
C13_WordsAreClassifiedAfterCaseFolding ==
    call.op = "t_ID" =>
        /\ result.value = lower(call.text)
        /\ (result.type # "ID") <=>
              (lower(call.text) \in SpecifiedReservedWords)

\* The synthetic name of an unnamed field: f0_, f1_, ... numbered among the
\* fields of the list that have neither an alias nor a bare column
\* reference.
SyntheticName(select_fields, f) ==
    LET before == {g \in 1..(f - 1) :
                      /\ IsNone(select_fields[g].alias)
                      /\ select_fields[g].expr.kind # "Identifier"}
    IN  <<"f" \o ToString(Cardinality(before)) \o "_">>

GroupValuesOfB(k) ==
    LET built == group_contexts_of(CountFields, call.group_set,
                                   call.select_context)
        rows == built.groups[call.order[k]].rows
    IN  [r \in DOMAIN rows |->
            Get(call.select_context.columns, <<"t", "b">>).values[rows[r]]]

C16_CheckTypesRejectsDisallowedTypes ==
    call.op = "check_types" =>
        LET arithmetic == Len(call.arg_types) = 1
                          \/ call.name \in ArithmeticNames
            all_int == \A i \in DOMAIN call.arg_types :
                          call.arg_types[i] = "INT"
            some_string == \E i \in DOMAIN call.arg_types :
                              call.arg_types[i] = "STRING"
        IN  /\ (arithmetic /\ all_int) => result = [type |-> "INT"]
            /\ (~arithmetic /\ all_int) => result = [type |-> "BOOL"]
            /\ (arithmetic /\ some_string) => IsError(result)

\* The stage that raises an exception of the given name.
StageOfError(error) ==
    IF error = "SyntaxError" THEN "lex"
    ELSE IF error = "ParseError" THEN "parse"
    ELSE IF error \in {"CompileError: Table not found",
                       "CompileError: Field not found",
                       "CompileError: Ambiguous field"} THEN "bind"
    ELSE "evaluate"

\* The text holds a character that is part of no token.
Unlexable(text) ==
    \E k \in DOMAIN text : \E i \in DOMAIN text[k] :
       ~IsIdStart(text[k][i]) /\ ~IsDigit(text[k][i])

\* A complete Context: every column holds num_rows values.
IsContext(r) ==
    /\ DOMAIN r = {"num_rows", "columns", "aggregate_context"}
    /\ \A c \in DOMAIN r.columns :
          Len(r.columns[c].column.values) = r.num_rows

C18_ColumnsHoldNumRows ==
    "num_rows" \in DOMAIN result =>
        /\ \A c \in DOMAIN result.columns :
              Len(result.columns[c].column.values) = result.num_rows
        /\ call.op \in {"append_row_to_context",
                        "append_partial_context_to_context"} =>
              LET added == result.num_rows - call.dest.num_rows
              IN  /\ added = IF call.op = "append_row_to_context" THEN 1
                             ELSE call.src.num_rows
                  /\ DOMAIN result.columns = DOMAIN call.dest.columns
                  /\ \A c \in DOMAIN result.columns :
                        Len(result.columns[c].column.values) =
                           Len(call.dest.columns[c].column.values) + added

\* A context of two columns that got a row by append_row_to_context and then
\* a row, with a null for the column b, by
\* append_partial_context_to_context.
C18_Witness ==
    /\ call.op = "append_partial_context_to_context"
    /\ "num_rows" \in DOMAIN result
    /\ result.num_rows = 2
    /\ Len(result.columns) = 2
    /\ call.dest.num_rows = 1
    /\ ~HasKey(call.src.columns, <<"b">>)
    /\ result.columns[2].column.values[2] = None

\* C19: a == b holds for two contexts iff they have the same row count,
\* the same ordered columns (names, types, values) and equal aggregate
\* contexts; contexts that are equal have equal hashes; a == b is false for
\* contexts that differ in a column value.
C19_ContextEqualityIsValueEquality ==
    call.op = "Context.__eq__" =>
        /\ result.equal <=>
              /\ call.a.num_rows = call.b.num_rows
              /\ call.a.columns = call.b.columns
              /\ call.a.aggregate_context = call.b.aggregate_context
        /\ result.equal => result.same_hash

\* The context of the given rows of select_context.
SubContext(select_context, rows) ==
    [num_rows |-> Len(rows),
     columns |-> [c \in DOMAIN select_context.columns |->
                     Item(select_context.columns[c].name,
                          Column(select_context.columns[c].column.type,
                                 [r \in DOMAIN rows |->
                                     select_context.columns[c].column
                                        .values[rows[r]]]))],
     aggregate_context |-> NoContext]

\* C20: the evaluation context of a group has one row and only the columns
\* of the group key (the field groups, then the sorted alias groups); its
\* aggregate context is the context of the rows of the group and has no
\* aggregate context itself; an aggregate call evaluates its argument on the
\* aggregate context and returns one value per row of the outer context.
C20_TwoScopeEvaluation ==
    call.op = "group_eval_context" =>
        LET outer == result.context
            key_names ==
                [g \in DOMAIN call.group_set.field_groups |->
                    call.group_set.field_groups[g].column]
                \o sorted(call.group_set.alias_groups)
            inner == SubContext(call.select_context, call.rows)
        IN  /\ ~IsError(outer)
            /\ outer.num_rows = 1
            /\ [c \in DOMAIN outer.columns |-> outer.columns[c].name]
                  = key_names
            /\ outer.aggregate_context = <<inner>>
            /\ outer.aggregate_context[1].aggregate_context = NoContext
            /\ ~IsError(result.aggregate)
            /\ Len(result.aggregate.values) = outer.num_rows
            /\ result.aggregate.values =
                  <<SumOfKept(inner, [r \in 1..inner.num_rows |-> True],
                              <<"t", "b">>)>>

\* A group of two rows under GROUP BY a: the aggregate context holds both
\* rows, the outer context the one key column.
C20_Witness ==
    /\ call.op = "group_eval_context"
    /\ Len(call.rows) = 2
    /\ ~IsError(result.context)
    /\ Len(result.context.columns) = 1
    /\ result.context.aggregate_context[1].num_rows = 2
    /\ result.aggregate.values = <<PyInt(-3)>>

=============================================================================
